---- MODULE Spec2Model ----
(***************************************************************************)
(* Cart / order transaction engine of eCommerceDsNodeExpress.               *)
(*                                                                         *)
(* The committed contents of the PostgreSQL tables are the state.  Every    *)
(* request handler is a sequence of SQL statements; one action models one   *)
(* statement, or a run of statements that touch only rows the transaction   *)
(* has already locked (their writes stay invisible to every other session   *)
(* until COMMIT, so they are applied with the COMMIT).  Isolation is        *)
(* READ COMMITTED: a plain SELECT reads committed rows and takes no lock, a *)
(* SELECT ... FOR UPDATE, UPDATE or DELETE waits while another transaction  *)
(* holds the lock of a row it matches, and a lock lasts until COMMIT or     *)
(* ROLLBACK.  Statements issued without a transaction commit on their own.  *)
(* A serial key comes from a sequence, and a value a sequence has handed    *)
(* out is not handed out again, whether its INSERT commits or not.          *)
(***************************************************************************)
EXTENDS Integers, Sequences, FiniteSets, Bags, TLC

\* ------------------------------------------------------------------ bounds
NumProcs == 2      \* cart and order request handlers in flight at once
NumItems == 2      \* no record is created once this many have been
InitStock == 2     \* "Stock" the catalog requests give a new record
MaxStock == 3      \* no request starts once a "Stock" or a line is beyond this
MaxAmt == 2        \* largest amount a request carries
MaxPrice == 2      \* largest "Price" of a record
MaxOrders == 1     \* no conversion starts once this many IdOrder are used
MaxTotal == 4      \* no cart request starts once a "TotalPrice" is beyond this
MaxCarts == 3      \* no request that may insert a cart starts once this many
                   \* IdCart are used

Procs == 1..NumProcs
\* the slot of the administrator's request on the catalog and the users
Admin == NumProcs + 1
\* the slot of the registration under way
Guest == NumProcs + 2
Slots == Procs \cup {Admin, Guest}
Items == 1..NumItems
Emails == {"u1", "u2"}
Roles == {"User", "Admin"}
\* recordId of a request: 0 is a missing field, NumItems + 1 names no row
RequestIds == 0..(NumItems + 1)
\* ------------------------------------------------------- the request body
\* a JavaScript string is a sequence of UTF-16 code units; Ascii lists the
\* characters of the code units 32 to 95, Letters those of 97 to 126
Ascii ==
  " !\"#$%&'()*+,-./0123456789:;<=>?@ABCDEFGHIJKLMNOPQRSTUVWXYZ[\\]^_"

Letters == "abcdefghijklmnopqrstuvwxyz{|}~"

CodeUnit(c) ==
  IF \E i \in 1..Len(Ascii) : SubSeq(Ascii, i, i) = c
  THEN 31 + CHOOSE i \in 1..Len(Ascii) : SubSeq(Ascii, i, i) = c
  ELSE 96 + CHOOSE i \in 1..Len(Letters) : SubSeq(Letters, i, i) = c

\* the code units of a text of such characters
Text(t) == [i \in 1..Len(t) |-> CodeUnit(SubSeq(t, i, i))]

\* a value of the JSON body express.json() hands to the handler: num / den is
\* the value of a number (a decimal), str the code units of a string, items
\* the elements of an array; undefined is a field the body leaves out
JsonValue(type, num, den, str, items) ==
  [type |-> type, num |-> num, den |-> den, str |-> str, items |-> items]

JsonNumber(n) == JsonValue("number", n, 1, <<>>, <<>>)

JsonDecimal(n, d) == JsonValue("number", n, d, <<>>, <<>>)

JsonString(s) == JsonValue("string", 0, 1, s, <<>>)

JsonBoolean(b) == JsonValue("boolean", IF b THEN 1 ELSE 0, 1, <<>>, <<>>)

JsonNull == JsonValue("null", 0, 1, <<>>, <<>>)

JsonArray(items) == JsonValue("array", 0, 1, <<>>, items)

JsonObject == JsonValue("object", 0, 1, <<>>, <<>>)

undefined == JsonValue("undefined", 0, 1, <<>>, <<>>)

Numbers(S) == {JsonNumber(n) : n \in S}

\* a JavaScript number: NaN, or num / den in lowest terms with den > 0, or
\* Infinity (1 / 0) or -Infinity (-1 / 0)
NaN == [nan |-> TRUE, num |-> 0, den |-> 1]

Abs(n) == IF n < 0 THEN 0 - n ELSE n

RECURSIVE GCD(_, _)
GCD(a, b) == IF b = 0 THEN a ELSE GCD(b, a % b)

Ratio(n, d) ==
  LET g == GCD(Abs(n), Abs(d))
  IN [nan |-> FALSE, num |-> n \div g, den |-> d \div g]

Negative(q) == IF q.nan THEN q ELSE [q EXCEPT !.num = 0 - @]

RECURSIVE Power(_, _)
Power(b, k) == IF k = 0 THEN 1 ELSE b * Power(b, k - 1)

Take(s, k) == SubSeq(s, 1, k)

Drop(s, k) == SubSeq(s, k + 1, Len(s))

\* the code units Number() strips from both ends of a string: WhiteSpace
\* (TAB, VT, FF, ZWNBSP and the space separators: SP, NBSP, U+1680, U+2000 to
\* U+200A, U+202F, U+205F, U+3000) and LineTerminator (LF, CR, LS, PS)
StrWhiteSpaceChar ==
  {9, 11, 12, 65279, 32, 160, 5760, 8239, 8287, 12288} \cup (8192..8202)
    \cup {10, 13, 8232, 8233}

RECURSIVE TrimStart(_)
TrimStart(s) ==
  IF Len(s) > 0 /\ s[1] \in StrWhiteSpaceChar THEN TrimStart(Drop(s, 1))
  ELSE s

RECURSIVE TrimEnd(_)
TrimEnd(s) ==
  IF Len(s) > 0 /\ s[Len(s)] \in StrWhiteSpaceChar
  THEN TrimEnd(Take(s, Len(s) - 1))
  ELSE s

\* the value of the digits 0 to 9, A to F and a to f
DigitValue ==
  [c \in (48..57) \cup (65..70) \cup (97..102) |->
     IF c <= 57 THEN c - 48 ELSE IF c <= 70 THEN c - 55 ELSE c - 87]

\* s is one digit of the base or more, and nothing else
IsDigits(s, base) ==
  /\ Len(s) > 0
  /\ \A i \in 1..Len(s) : s[i] \in DOMAIN DigitValue /\ DigitValue[s[i]] < base

RECURSIVE Radix(_, _)
Radix(s, base) ==
  IF Len(s) = 0 THEN 0
  ELSE Radix(Take(s, Len(s) - 1), base) * base + DigitValue[s[Len(s)]]

\* the place of the first code unit of s that is in cs, 0 when there is none
IndexOf(s, cs) ==
  LET hits == {i \in 1..Len(s) : s[i] \in cs}
  IN IF hits = {} THEN 0 ELSE CHOOSE i \in hits : \A j \in hits : i <= j

\* Infinity, or digits with an optional point and an optional exponent: 1,
\* 01, 1.0, 1., .5, 1e0, 15E-1; anything else is NaN
StrUnsignedDecimalLiteral(s) ==
  IF s = Text("Infinity") THEN Ratio(1, 0)
  ELSE LET e == IndexOf(s, {CodeUnit("e"), CodeUnit("E")})
           mantissa == IF e = 0 THEN s ELSE Take(s, e - 1)
           exponent == IF e = 0 THEN <<>> ELSE Drop(s, e)
           signed ==
             Len(exponent) > 0
               /\ exponent[1] \in {CodeUnit("+"), CodeUnit("-")}
           expDigits == IF signed THEN Drop(exponent, 1) ELSE exponent
           dot == IndexOf(mantissa, {CodeUnit(".")})
           whole == IF dot = 0 THEN mantissa ELSE Take(mantissa, dot - 1)
           fraction == IF dot = 0 THEN <<>> ELSE Drop(mantissa, dot)
           wellFormed ==
             /\ Len(whole) = 0 \/ IsDigits(whole, 10)
             /\ Len(fraction) = 0 \/ IsDigits(fraction, 10)
             /\ Len(whole) + Len(fraction) > 0
             /\ e = 0 \/ IsDigits(expDigits, 10)
           scale ==
             (IF e = 0 THEN 0
              ELSE IF exponent[1] = CodeUnit("-") THEN 0 - Radix(expDigits, 10)
              ELSE Radix(expDigits, 10)) - Len(fraction)
           digits == Radix(whole \o fraction, 10)
       IN IF ~wellFormed THEN NaN
          ELSE IF scale >= 0 THEN Ratio(digits * Power(10, scale), 1)
          ELSE Ratio(digits, Power(10, 0 - scale))

\* Number(string): the string without the white space at its ends; empty is
\* 0; 0x, 0o and 0b start a hexadecimal, octal or binary integer, which takes
\* no sign; otherwise a decimal literal with an optional sign
StringToNumber(s) ==
  LET t == TrimEnd(TrimStart(s))
      prefix == IF Len(t) >= 2 THEN Take(t, 2) ELSE <<>>
  IN IF Len(t) = 0 THEN Ratio(0, 1)
     ELSE IF prefix \in {Text("0x"), Text("0X")}
          THEN IF IsDigits(Drop(t, 2), 16) THEN Ratio(Radix(Drop(t, 2), 16), 1)
               ELSE NaN
     ELSE IF prefix \in {Text("0o"), Text("0O")}
          THEN IF IsDigits(Drop(t, 2), 8) THEN Ratio(Radix(Drop(t, 2), 8), 1)
               ELSE NaN
     ELSE IF prefix \in {Text("0b"), Text("0B")}
          THEN IF IsDigits(Drop(t, 2), 2) THEN Ratio(Radix(Drop(t, 2), 2), 1)
               ELSE NaN
     ELSE IF t[1] = CodeUnit("-")
          THEN Negative(StrUnsignedDecimalLiteral(Drop(t, 1)))
     ELSE IF t[1] = CodeUnit("+") THEN StrUnsignedDecimalLiteral(Drop(t, 1))
     ELSE StrUnsignedDecimalLiteral(t)

\* the decimal digits of a natural number
RECURSIVE Numeral(_)
Numeral(n) ==
  IF n < 10 THEN <<48 + n>> ELSE Numeral(n \div 10) \o <<48 + (n % 10)>>

\* the digits of r / d after the point, r < d
RECURSIVE FractionDigits(_, _)
FractionDigits(r, d) ==
  IF r = 0 THEN <<>>
  ELSE Numeral((10 * r) \div d) \o FractionDigits((10 * r) % d, d)

Zeros(k) == [i \in 1..k |-> 48]

RECURSIVE DropZeros(_)
DropZeros(s) == IF Len(s) > 0 /\ s[1] = 48 THEN DropZeros(Drop(s, 1)) ELSE s

RECURSIVE DropLastZeros(_)
DropLastZeros(s) ==
  IF Len(s) > 0 /\ s[Len(s)] = 48 THEN DropLastZeros(Take(s, Len(s) - 1))
  ELSE s

\* Number::toString of the decimal n / d: with the digits s of the value, k
\* of them, and the point after the first pos of them, the digits and zeros
\* for k <= pos <= 21, the digits with a point for 0 < pos <= 21, 0. and
\* zeros and the digits for -6 < pos <= 0, and the exponent form otherwise
NumberToString(n, d) ==
  LET m == Abs(n)
      whole == IF m \div d = 0 THEN <<>> ELSE Numeral(m \div d)
      all == whole \o FractionDigits(m % d, d)
      s == DropLastZeros(DropZeros(all))
      k == Len(s)
      pos == Len(whole) - (Len(all) - Len(DropZeros(all)))
      e == pos - 1
      exponent ==
        Text("e") \o (IF e < 0 THEN Text("-") ELSE Text("+")) \o Numeral(Abs(e))
      digits ==
        IF k <= pos /\ pos <= 21 THEN s \o Zeros(pos - k)
        ELSE IF 0 < pos /\ pos <= 21 THEN Take(s, pos) \o Text(".") \o Drop(s, pos)
        ELSE IF -6 < pos /\ pos <= 0 THEN Text("0.") \o Zeros(0 - pos) \o s
        ELSE IF k = 1 THEN s \o exponent
        ELSE Take(s, 1) \o Text(".") \o Drop(s, 1) \o exponent
  IN IF n = 0 THEN Text("0")
     ELSE IF n < 0 THEN Text("-") \o digits
     ELSE digits

RECURSIVE toString(_)
RECURSIVE join(_)
\* Array.prototype.join: the elements' strings with commas in between, null
\* and undefined as the empty string
join(items) ==
  LET first == IF Head(items).type \in {"null", "undefined"} THEN <<>>
               ELSE toString(Head(items))
  IN IF items = <<>> THEN <<>>
     ELSE IF Len(items) = 1 THEN first
     ELSE first \o Text(",") \o join(Tail(items))

\* String(value), which Number() takes of an array or an object first
toString(v) ==
  CASE v.type = "string" -> v.str
    [] v.type = "number" -> NumberToString(v.num, v.den)
    [] v.type = "boolean" -> IF v.num = 1 THEN Text("true") ELSE Text("false")
    [] v.type = "null" -> Text("null")
    [] v.type = "undefined" -> Text("undefined")
    [] v.type = "array" -> join(v.items)
    [] v.type = "object" -> Text("[object Object]")

\* Number(amount): a number is itself, a string is the number it spells,
\* true is 1, false and null are 0, undefined is NaN, an array or an object
\* is the number its string spells
Number(v) ==
  CASE v.type = "number" -> Ratio(v.num, v.den)
    [] v.type = "string" -> StringToNumber(v.str)
    [] v.type = "boolean" -> Ratio(v.num, 1)
    [] v.type = "null" -> Ratio(0, 1)
    [] v.type = "undefined" -> NaN
    [] v.type \in {"array", "object"} -> StringToNumber(toString(v))

isNaN(n) == n.nan

\* amount of a request: the whole numbers from -1, a fraction, values of
\* every other type of JSON, and strings, the last three with a tab and a
\* line feed, a no-break space and a byte order mark, a vertical tab and a
\* line separator around the digit 1
Amounts ==
  Numbers(-1..MaxAmt)
    \cup {JsonDecimal(1, 2), undefined, JsonNull, JsonBoolean(TRUE),
          JsonBoolean(FALSE), JsonObject, JsonArray(<<>>),
          JsonArray(<<JsonNumber(2)>>),
          JsonArray(<<JsonNumber(1), JsonNumber(1)>>)}
    \cup {JsonString(Text(t)) :
            t \in {"", " ", "abc", "1", " 1 ", "1.0", "1e0", "0x1", "01",
                   "-1", "4", "0.5", "1px", "Infinity"}}
    \cup {JsonString(s) :
            s \in {<<9, 49, 10>>, <<160, 49, 65279>>, <<11, 49, 8232>>}}

\* DECIMAL(10, 2), the type of "Price" and "TotalPrice": two digits after
\* the point; the model holds the number of hundredths
Scale == 2

Hundredths == Power(10, Scale)

Decimal(n) == n * Hundredths

\* the value an integer column, or a DECIMAL(10, 2) column counted in
\* hundredths, takes of the numeric n / d: the nearest whole number, a half
\* away from 0
Round(n, d) ==
  IF n >= 0 THEN (2 * n + d) \div (2 * d)
  ELSE 0 - ((d - 2 * n) \div (2 * d))

\* "Price" in the body of a catalog request, a whole number: Record.init sets
\* no lower bound, 0 is a free record
Prices == 0..MaxPrice

\* a field of the body of PUT /records/:id: <<>> when the body leaves it out
\* (undefined), <<n>> when it carries n
Bodies(newPrices, newStocks) ==
  {[Price |-> <<n>>, Stock |-> <<>>] : n \in newPrices}
    \cup {[Price |-> <<>>, Stock |-> <<n>>] : n \in newStocks}

VARIABLES
  users,         \* "Users": email -> role, "none" when there is no row
  stock,         \* "Records"."Stock", per IdRecord of the rows that exist
  price,         \* "Records"."Price" in hundredths, per IdRecord
  carts,         \* "Carts": the row of every IdCart that exists
  cartDetails,   \* "CartDetails": bag of rows [cart, rec, amount, price]
  orders,        \* "Orders": the row of every IdOrder that exists
  orderDetails,  \* "OrderDetails": bag of rows [order, rec, amount, price]
  seqs,          \* the last IdRecord, IdCart and IdOrder the sequences gave
  procs          \* the handlers in flight: position, locals, locks, response

db == <<users, stock, price, carts, cartDetails, orders, orderDetails>>
vars ==
  <<users, stock, price, carts, cartDetails, orders, orderDetails, seqs, procs>>

\* ----------------------------------------------------------------- helpers
\* an answer: value2 / per is the second number it carries
NoResp ==
  [status |-> 0, kind |-> "none", value |-> 0, value2 |-> 0, per |-> 1]

Resp(status, kind, value, value2) ==
  [status |-> status, kind |-> kind, value |-> value, value2 |-> value2,
   per |-> 1]

\* amt / per is parsedAmount
Idle ==
  [op |-> "idle", pc |-> "idle", email |-> "", role |-> "", rec |-> 0,
   amt |-> 0, per |-> 1,
   cart |-> 0, price |-> 0, lineAmt |-> 0, total |-> 0, orderId |-> 0,
   details |-> EmptyBag, todo |-> EmptyBag, queue |-> <<>>,
   didDelete |-> FALSE, didFind |-> FALSE, didTotal |-> FALSE,
   locks |-> <<>>, res |-> NoResp]

\* the handler has answered: its transaction is over, its locks are released
Finished(op, r) == [Idle EXCEPT !.op = op, !.pc = "done", !.res = r]

RowRecord(id) == [t |-> "Records", a |-> id, b |-> 0]
RowCart(c) == [t |-> "Carts", a |-> c, b |-> 0]
RowDetail(c, id) == [t |-> "CartDetails", a |-> c, b |-> id]
RowOrder(o) == [t |-> "Orders", a |-> o, b |-> 0]
RowUser(email) == [t |-> "Users", a |-> email, b |-> 0]

Range(s) == {s[i] : i \in DOMAIN s}

Held(p) == Range(procs[p].locks)

LockedByOther(p, row) == \E q \in Slots \ {p} : row \in Held(q)

LockedByAny(row) == \E q \in Slots : row \in Held(q)

\* the check of a foreign key reads the row it refers to FOR KEY SHARE: it
\* waits for a transaction that has the row from SELECT ... FOR UPDATE or
\* from DELETE, and not for one that has it from an UPDATE of columns that
\* are no key, as the removal's UPDATE of "Stock" is
KeyLocked(row) ==
  \E q \in Slots :
    row \in Held(q) /\ ~(row.t = "Records" /\ procs[q].op = "remove")

RECURSIVE SeqOfSet(_)
\* the elements of a set, one after the other
SeqOfSet(S) ==
  IF S = {} THEN <<>>
  ELSE LET e == CHOOSE x \in S : TRUE IN <<e>> \o SeqOfSet(S \ {e})

\* the IdRecord of the rows of "Records"
Records == DOMAIN stock

\* WHERE LOWER(TRIM("UserEmail")) = :email AND "Enabled" = true
ActiveCartIds(email) ==
  {c \in DOMAIN carts : carts[c].email = email /\ carts[c].enabled}

\* WHERE "UserEmail" = :email
CartIdsOf(email) == {c \in DOMAIN carts : carts[c].email = email}

\* WHERE "CartId" = :cartId
LinesOfCart(c) == {l \in BagToSet(cartDetails) : l.cart = c}

\* WHERE "CartId" = :cartId AND "RecordId" = :recordId
LinesOf(c, id) == {l \in LinesOfCart(c) : l.rec = id}

BagAdd(b, e) == b (+) SetToBag({e})

BagRemove(b, e) == b (-) SetToBag({e})

\* the rows of bag b among the set S, with their multiplicity
BagOfSet(S, b) == [e \in S |-> b[e]]

\* table f without the rows whose key is in S
Without(f, S) == [k \in DOMAIN f \ S |-> f[k]]

RECURSIVE SeqOfBag(_)
\* the rows of a bag in one of the orders a query may return them
SeqOfBag(b) ==
  IF b = EmptyBag THEN {<<>>}
  ELSE UNION {{<<e>> \o s : s \in SeqOfBag(BagRemove(b, e))} : e \in BagToSet(b)}

RECURSIVE SumAmount(_, _)
SumAmount(S, b) ==
  IF S = {} THEN 0
  ELSE LET e == CHOOSE x \in S : TRUE
       IN b[e] * e.amount + SumAmount(S \ {e}, b)

RECURSIVE SumValue(_, _)
SumValue(S, b) ==
  IF S = {} THEN 0
  ELSE LET e == CHOOSE x \in S : TRUE
       IN b[e] * e.amount * e.price + SumValue(S \ {e}, b)

\* the cached totals are within the range the model explores
TotalsInRange ==
  \A c \in DOMAIN carts :
    carts[c].total \in (0 - Decimal(MaxTotal))..Decimal(MaxTotal)

\* the stock counts are within the range the model explores
StocksInRange == \A i \in Records : stock[i] <= MaxStock

\* the cart lines are within the range the model explores
LinesInRange == \A l \in BagToSet(cartDetails) : l.amount <= MaxStock

InRange == TotalsInRange /\ StocksInRange /\ LinesInRange

\* ------------------------------------------------------------------- state
\* sequelize.sync({ force: true }) at startup: every table is empty and every
\* sequence is at its start
Init ==
  /\ users = [e \in Emails |-> "none"]
  /\ stock = <<>>
  /\ price = <<>>
  /\ carts = <<>>
  /\ cartDetails = EmptyBag
  /\ orders = <<>>
  /\ orderDetails = EmptyBag
  /\ seqs = [records |-> 0, carts |-> 0, orders |-> 0]
  /\ procs = [p \in Slots |-> Idle]

\* ------------------------------------------------------------ registration
\* cartService.createCart, the INSERT of Cart.findOrCreate once it is
\* committed: the "Carts" table with the new cart under IdCart id
createCart(email, id) ==
  carts @@ (id :> [email |-> email, total |-> 0, enabled |-> TRUE])

\* the transaction of a registration, up to its COMMIT
createUserBegin(email, role) ==
  /\ seqs.carts < MaxCarts
  /\ LET found == ActiveCartIds(email)
     IN IF found # {}
        THEN /\ \E c \in found :
                  procs' = [procs EXCEPT ![Guest] =
                    [Idle EXCEPT !.op = "register", !.pc = "g_commit",
                                 !.email = email, !.role = role, !.cart = c]]
             /\ UNCHANGED seqs
        ELSE /\ procs' = [procs EXCEPT ![Guest] =
                  [Idle EXCEPT !.op = "register", !.pc = "g_commit",
                               !.email = email, !.role = role,
                               !.cart = seqs.carts + 1]]
             /\ seqs' = [seqs EXCEPT !.carts = @ + 1]
  /\ UNCHANGED db

\* a registration that does not refuse an email already in use
createUserAgain(email, role) ==
  /\ procs[Guest].pc \in {"idle", "done"}
  /\ createUserBegin(email, role)

\* POST /auth/register -> authController.register: findUserByEmail, and an
\* email already in use is answered 400 and changes nothing; otherwise
\* userService.createUser opens a transaction, inserts the user and calls
\* cartService.createCart, whose findOrCreate reads the active cart of the
\* email and, with none, inserts one under the next IdCart.  Nothing of this
\* is visible to another session before the COMMIT.
createUser(email, role) ==
  /\ procs[Guest].pc \in {"idle", "done"}
  /\ users[email] = "none"
  /\ createUserBegin(email, role)

\* newUser.save and t.commit(): the user and the cart are there; 201
createUserCommit ==
  /\ procs[Guest].pc = "g_commit"
  /\ LET pr == procs[Guest]
     IN /\ users' = [users EXCEPT ![pr.email] = pr.role]
        /\ carts' = IF pr.cart \in DOMAIN carts THEN carts
                    ELSE createCart(pr.email, pr.cart)
        /\ procs' = [procs EXCEPT ![Guest] =
             Finished("register", Resp(201, "ok", pr.cart, 0))]
  /\ UNCHANGED <<stock, price, cartDetails, orders, orderDetails, seqs>>

Register(emails, roles) ==
  \/ \E email \in emails, role \in roles : createUser(email, role)
  \/ createUserCommit

\* --------------------------------------------------------------- deleteUser
\* the "Orders" of the email
OrdersOf(email) == {o \in DOMAIN orders : orders[o].email = email}

\* DELETE /users/:email -> userService.deleteUser, a transaction: SELECT the
\* user (none: ROLLBACK, and the controller answers 204), then DELETE FROM
\* "Orders" WHERE "UserEmail" = :email, which deletes the orders there are
\* at that moment, their lines with them (ON DELETE CASCADE); the rows stay
\* locked and are gone for the others with the COMMIT
DeleteUserOrders(emails) ==
  /\ procs[Admin].pc \in {"idle", "done"}
  /\ \E email \in emails :
       procs' = [procs EXCEPT ![Admin] =
         IF users[email] = "none"
         THEN Finished("deleteUser", Resp(204, "ok", 0, 0))
         ELSE [Idle EXCEPT
                 !.op = "deleteUser", !.pc = "du_user", !.email = email,
                 !.locks = SeqOfSet({RowOrder(o) : o \in OrdersOf(email)})]]
  /\ UNCHANGED <<db, seqs>>

\* user.destroy: DELETE FROM "Users" takes the user's row, and every check
\* of a foreign key that refers to the user waits from here on
DeleteUserDestroy ==
  /\ procs[Admin].pc = "du_user"
  /\ procs' = [procs EXCEPT ![Admin] =
       [@ EXCEPT !.pc = "du_carts",
                 !.locks = Append(@, RowUser(procs[Admin].email))]]
  /\ UNCHANGED <<db, seqs>>

\* with the user the user's carts go (Cart belongsTo User, ON DELETE
\* CASCADE): the DELETE of the carts waits for every transaction that holds
\* one of them and takes their rows
DeleteUserCarts ==
  /\ procs[Admin].pc = "du_carts"
  /\ LET gone == CartIdsOf(procs[Admin].email)
     IN /\ \A c \in gone : ~LockedByOther(Admin, RowCart(c))
        /\ procs' = [procs EXCEPT ![Admin] =
             [@ EXCEPT !.pc = "du_check",
                       !.locks = @ \o SeqOfSet({RowCart(c) : c \in gone})]]
  /\ UNCHANGED <<db, seqs>>

\* the foreign keys without an ON DELETE rule are checked at the end of the
\* statement, and the check of the cart lines waits for a transaction that
\* holds one of them.  They refuse the DELETE for an order of the user that
\* came after the DELETE of the orders ("Orders"."UserEmail",
\* "Orders"."CartId") and for a line in one of the carts
\* ("CartDetails"."CartId").  Refused: ROLLBACK, the orders are back, 500.
\* Otherwise COMMIT and 204.
DeleteUserCommit ==
  /\ procs[Admin].pc = "du_check"
  /\ LET email == procs[Admin].email
         gone == {row.a : row \in {h \in Held(Admin) : h.t = "Carts"}}
         sold == {row.a : row \in {h \in Held(Admin) : h.t = "Orders"}}
     IN /\ \A c \in gone : \A l \in LinesOfCart(c) :
             ~LockedByOther(Admin, RowDetail(l.cart, l.rec))
        /\ IF \/ OrdersOf(email) \ sold # {}
              \/ \E c \in gone : LinesOfCart(c) # {}
           THEN /\ procs' = [procs EXCEPT ![Admin] =
                     Finished("deleteUser", Resp(500, "internal", 0, 0))]
                /\ UNCHANGED db
           ELSE /\ orders' = Without(orders, sold)
                /\ orderDetails' =
                     BagOfSet({d \in BagToSet(orderDetails) :
                                 d.order \notin sold}, orderDetails)
                /\ users' = [users EXCEPT ![email] = "none"]
                /\ carts' = Without(carts, gone)
                /\ procs' = [procs EXCEPT ![Admin] =
                     Finished("deleteUser", Resp(204, "ok", 0, 0))]
                /\ UNCHANGED <<stock, price, cartDetails>>
  /\ UNCHANGED seqs

DeleteUser(emails) ==
  \/ DeleteUserOrders(emails)
  \/ DeleteUserDestroy
  \/ DeleteUserCarts
  \/ DeleteUserCommit

\* ------------------------------------------------------------- the catalog
\* POST /records -> recordsController.createRecord with the GroupId of a
\* group that exists: a body without a truthy Price or Stock is answered 400;
\* otherwise recordService.create inserts the row under the next IdRecord
CreateRecord(newPrices, newStocks) ==
  /\ procs[Admin].pc \in {"idle", "done"}
  /\ seqs.records < NumItems
  /\ \E Price \in newPrices, Stock \in newStocks :
       IF Price = 0 \/ Stock = 0
       THEN /\ procs' = [procs EXCEPT ![Admin] =
                 Finished("createRecord", Resp(400, "missing", 0, 0))]
            /\ UNCHANGED <<stock, price, seqs>>
       ELSE LET id == seqs.records + 1
            IN /\ stock' = stock @@ (id :> Stock)
               /\ price' = price @@ (id :> Decimal(Price))
               /\ seqs' = [seqs EXCEPT !.records = id]
               /\ procs' = [procs EXCEPT ![Admin] =
                    Finished("createRecord", Resp(201, "ok", id, 0))]
  /\ UNCHANGED <<users, carts, cartDetails, orders, orderDetails>>

\* DELETE /records/:id -> recordService.remove, first statement: getById;
\* no record is answered 404
DeleteRecordRead(ids) ==
  /\ procs[Admin].pc \in {"idle", "done"}
  /\ \E id \in ids :
       procs' = [procs EXCEPT ![Admin] =
         IF id \notin Records
         THEN Finished("deleteRecord", Resp(404, "not_found", 0, 0))
         ELSE [Idle EXCEPT !.op = "deleteRecord", !.pc = "dr_delete",
                           !.rec = id]]
  /\ UNCHANGED <<db, seqs>>

\* second statement: DELETE FROM "Records" WHERE "IdRecord" = :id, on its
\* own, outside any transaction.  It waits for every transaction that holds
\* the record and takes the row; a DELETE that finds no row is a success
DeleteRecordLock ==
  /\ procs[Admin].pc = "dr_delete"
  /\ LET id == procs[Admin].rec
     IN IF id \notin Records
        THEN procs' = [procs EXCEPT ![Admin] =
                         Finished("deleteRecord", Resp(204, "ok", 0, 0))]
        ELSE /\ ~LockedByOther(Admin, RowRecord(id))
             /\ procs' = [procs EXCEPT ![Admin] =
                  [@ EXCEPT !.pc = "dr_check",
                            !.locks = Append(@, RowRecord(id))]]
  /\ UNCHANGED <<db, seqs>>

\* the end of the DELETE, with the record's row still held: the foreign keys
\* that refer to the record are checked, and the check of the cart lines
\* waits for a transaction that holds one of them.  A cart line or an order
\* line of the record refuses the DELETE ("CartDetails"."RecordId" has no ON
\* DELETE rule, "OrderDetails"."RecordId" is ON DELETE RESTRICT): 500.
\* Otherwise the record is gone: 204.
DeleteRecordCommit ==
  /\ procs[Admin].pc = "dr_check"
  /\ LET id == procs[Admin].rec
     IN /\ \A l \in BagToSet(cartDetails) :
             l.rec = id => ~LockedByOther(Admin, RowDetail(l.cart, l.rec))
        /\ IF \/ \E l \in BagToSet(cartDetails) : l.rec = id
              \/ \E d \in BagToSet(orderDetails) : d.rec = id
           THEN /\ procs' = [procs EXCEPT ![Admin] =
                     Finished("deleteRecord", Resp(500, "internal", 0, 0))]
                /\ UNCHANGED <<stock, price>>
           ELSE /\ stock' = Without(stock, {id})
                /\ price' = Without(price, {id})
                /\ procs' = [procs EXCEPT ![Admin] =
                     Finished("deleteRecord", Resp(204, "ok", 0, 0))]
  /\ UNCHANGED <<users, carts, cartDetails, orders, orderDetails, seqs>>

DeleteRecord(ids) ==
  \/ DeleteRecordRead(ids)
  \/ DeleteRecordLock
  \/ DeleteRecordCommit

\* PUT /records/:id -> recordsController.updateRecord, first half:
\* recordService.getById (none: 404), then updatedData takes every column
\* from the body where the body has it and from the row just read otherwise
UpdateRecordRead(ids, bodies) ==
  /\ procs[Admin].pc \in {"idle", "done"}
  /\ StocksInRange
  /\ \E id \in ids, body \in bodies :
       procs' = [procs EXCEPT ![Admin] =
         IF id \notin Records
         THEN Finished("updateRecord", Resp(404, "not_found", 0, 0))
         ELSE [Idle EXCEPT
                 !.op = "updateRecord", !.pc = "u_write", !.rec = id,
                 !.price = IF body.Price # <<>> THEN Decimal(body.Price[1])
                           ELSE price[id],
                 !.amt = IF body.Stock # <<>> THEN body.Stock[1]
                         ELSE stock[id]]]
  /\ UNCHANGED <<db, seqs>>

\* second half: recordService.update, one UPDATE "Records" that sets every
\* column of updatedData, "Price" and "Stock" among them; no row updated is
\* answered 500
UpdateRecordWrite ==
  /\ procs[Admin].pc = "u_write"
  /\ LET id == procs[Admin].rec
     IN IF id \notin Records
        THEN /\ procs' = [procs EXCEPT ![Admin] =
                  Finished("updateRecord", Resp(500, "update_failed", 0, 0))]
             /\ UNCHANGED <<stock, price>>
        ELSE /\ ~LockedByAny(RowRecord(id))
             /\ price' = [price EXCEPT ![id] = procs[Admin].price]
             /\ stock' = [stock EXCEPT ![id] = procs[Admin].amt]
             /\ procs' = [procs EXCEPT ![Admin] =
                  Finished("updateRecord", Resp(200, "ok", 0, 0))]
  /\ UNCHANGED <<users, carts, cartDetails, orders, orderDetails, seqs>>

\* a stock update that adds the amount without the check of the result's sign
updateStockUnchecked(id, amount) ==
  IF id \in Records THEN [stock EXCEPT ![id] = @ + amount] ELSE stock

\* a stock update that commits the amount when the result is not negative
updateStockCommitted(id, amount) ==
  IF id \in Records /\ stock[id] + amount >= 0
  THEN [stock EXCEPT ![id] = @ + amount] ELSE stock

\* recordService.updateStock(id, amount): its own transaction; SELECT the
\* record FOR UPDATE with type SELECT, which yields the rows, so that
\* const [results] is the first row and results[0] is undefined: the call
\* takes every record for missing, rolls back and throws.  The value is the
\* "Stock" column afterwards, which no call changes.
updateStock(id, amount) == stock

\* PUT /records/:id/updateStock/:amount -> recordsController.updateStock:
\* recordService.updateStock throws, which is answered 400
UpdateStock(ids, amounts) ==
  /\ procs[Admin].pc \in {"idle", "done"}
  /\ \E id \in ids, amount \in amounts :
       /\ ~LockedByAny(RowRecord(id))
       /\ stock' = updateStock(id, amount)
       /\ procs' = [procs EXCEPT ![Admin] =
            Finished("updateStock", Resp(400, "bad_request", 0, 0))]
  /\ UNCHANGED <<users, price, carts, cartDetails, orders, orderDetails, seqs>>

\* ------------------------------------------------------------- addToCart
\* POST /cart-details/add/:email.  callerOk is the outcome of the check that
\* the authenticated user is the cart's owner or an Admin.
\* if (!email || !recordId || amount === undefined): 400; parsedAmount =
\* Number(amount), if (isNaN(parsedAmount) || parsedAmount <= 0): 400; then
\* the check of the caller
AddValidate(email, recordId, amount, callerOk) ==
  LET parsedAmount == Number(amount)
  IN IF recordId = 0 \/ amount = undefined
     THEN Finished("add", Resp(400, "missing", 0, 0))
     ELSE IF isNaN(parsedAmount) \/ parsedAmount.num <= 0
          THEN Finished("add", Resp(400, "validation", 0, 0))
     ELSE IF ~callerOk THEN Finished("add", Resp(403, "forbidden", 0, 0))
     ELSE [Idle EXCEPT !.op = "add", !.pc = "a_record", !.email = email,
                       !.rec = recordId, !.amt = parsedAmount.num,
                       !.per = parsedAmount.den]

\* what the handler makes of each of the requests
AddRequests(emails, ids, amounts, oks) ==
  {AddValidate(email, recordId, amount, callerOk) :
     email \in emails, recordId \in ids, amount \in amounts, callerOk \in oks}

AddBegin(p, requests) ==
  /\ procs[p].pc \in {"idle", "done"}
  /\ InRange
  /\ \E r \in requests : procs' = [procs EXCEPT ![p] = r]
  /\ UNCHANGED <<db, seqs>>

\* parsedAmount of the request p serves
ParsedAmount(p) == [num |-> procs[p].amt, den |-> procs[p].per]

\* column + :amount, or column - :amount with the amount negated, written to
\* an integer column or to a DECIMAL(10, 2) column counted in hundredths
Plus(column, amount) == Round(column * amount.den + amount.num, amount.den)

Minus(column, amount) == Round(column * amount.den - amount.num, amount.den)

\* value < parsedAmount
LessThan(value, amount) == value * amount.den < amount.num

\* the record read by a plain SELECT: no wait, no row lock
AddReadRecord(p) ==
  /\ procs[p].pc = "a_record"
  /\ LET id == procs[p].rec
     IN procs' = [procs EXCEPT ![p] =
          IF id \notin Records THEN Finished("add", Resp(404, "not_found", 0, 0))
          ELSE IF LessThan(stock[id], ParsedAmount(p))
               THEN Finished("add", Resp(400, "insufficient", stock[id], 0))
               ELSE [@ EXCEPT !.pc = "a_cart", !.price = price[id]]]
  /\ UNCHANGED <<db, seqs>>

\* the record locked and the add carried on whatever the stock is
AddLockRecordUnchecked(p) ==
  /\ procs[p].pc = "a_record"
  /\ LET id == procs[p].rec
     IN IF id \notin Records
        THEN procs' = [procs EXCEPT ![p] =
                         Finished("add", Resp(404, "not_found", 0, 0))]
        ELSE /\ ~LockedByOther(p, RowRecord(id))
             /\ procs' = [procs EXCEPT ![p] =
                  [@ EXCEPT !.pc = "a_cart", !.price = price[id],
                            !.locks = Append(@, RowRecord(id))]]
  /\ UNCHANGED <<db, seqs>>

\* SELECT * FROM "Records" WHERE "IdRecord" = :recordId FOR UPDATE, then the
\* existence check and if (recordData.Stock < parsedAmount)
AddLockRecord(p) ==
  /\ procs[p].pc = "a_record"
  /\ LET id == procs[p].rec
     IN IF id \notin Records
        THEN procs' = [procs EXCEPT ![p] =
                         Finished("add", Resp(404, "not_found", 0, 0))]
        ELSE /\ ~LockedByOther(p, RowRecord(id))
             /\ procs' = [procs EXCEPT ![p] =
                  IF LessThan(stock[id], ParsedAmount(p))
                  THEN Finished("add", Resp(400, "insufficient", stock[id], 0))
                  ELSE [@ EXCEPT !.pc = "a_cart", !.price = price[id],
                                 !.locks = Append(@, RowRecord(id))]]
  /\ UNCHANGED <<db, seqs>>

\* SELECT * FROM "Carts" WHERE ... "Enabled" = true FOR UPDATE, which locks
\* every row it returns; the handler goes on with the first.  With no row,
\* INSERT ... ON CONFLICT ("UserEmail"): "Carts" (Cart.init) has no unique
\* index on "UserEmail", so PostgreSQL rejects the INSERT (42P10) before it
\* takes an IdCart; that is not the 23505 the handler retries on, and the
\* inner catch rolls back and answers 500 with the cart message.
AddLockCart(p) ==
  /\ procs[p].pc = "a_cart"
  /\ LET found == ActiveCartIds(procs[p].email)
     IN IF found = {}
        THEN procs' = [procs EXCEPT ![p] =
                         Finished("add", Resp(500, "cart_error", 0, 0))]
        ELSE /\ \A c \in found : ~LockedByOther(p, RowCart(c))
             /\ \E c \in found :
                  procs' = [procs EXCEPT ![p] =
                    [@ EXCEPT !.pc = "a_write", !.cart = c,
                              !.locks = @ \o SeqOfSet({RowCart(x) : x \in found})]]
  /\ UNCHANGED <<db, seqs>>

\* an add that always inserts a row
AddLineInsert(details, c, id, amount, recordPrice) ==
  BagAdd(details, [cart |-> c, rec |-> id, amount |-> Plus(0, amount),
                   price |-> recordPrice])

\* the cart line an add leaves behind: the existing row with "Amount" set to
\* existingCartItem.Amount + parsedAmount, or a new row with the amount at
\* the record's price
AddLine(details, c, id, amount, recordPrice) ==
  IF LinesOf(c, id) # {}
  THEN LET l == CHOOSE x \in LinesOf(c, id) : TRUE
       IN BagAdd(BagRemove(details, l),
                 [l EXCEPT !.amount = Plus(@, amount)])
  ELSE BagAdd(details, [cart |-> c, rec |-> id, amount |-> Plus(0, amount),
                        price |-> recordPrice])

\* priceToAdd = recordData.Price * parsedAmount;
\* "TotalPrice" = "TotalPrice" + :priceToAdd
AddTotal(c, amount, recordPrice) ==
  [carts EXCEPT ![c].total =
     Plus(@, [num |-> recordPrice * amount.num, den |-> amount.den])]

\* SELECT the cart line FOR UPDATE, UPDATE or INSERT it, UPDATE "Records" SET
\* "Stock" = "Stock" - :amount, UPDATE the cart total, COMMIT
AddWriteCommit(p) ==
  /\ procs[p].pc = "a_write"
  /\ LET c == procs[p].cart
         id == procs[p].rec
     IN /\ ~LockedByOther(p, RowDetail(c, id))
        /\ cartDetails' =
             AddLine(cartDetails, c, id, ParsedAmount(p), procs[p].price)
        /\ stock' = [stock EXCEPT ![id] = Minus(@, ParsedAmount(p))]
        /\ carts' = AddTotal(c, ParsedAmount(p), procs[p].price)
        /\ procs' = [procs EXCEPT ![p] =
             [@ EXCEPT !.pc = "a_reply", !.locks = <<>>]]
  /\ UNCHANGED <<users, price, orders, orderDetails, seqs>>

\* after the COMMIT: SELECT "Stock" without a transaction, then the answer;
\* with no row left, updatedRecord.Stock throws into the outer catch (500)
AddReply(p) ==
  /\ procs[p].pc = "a_reply"
  /\ procs' = [procs EXCEPT ![p] =
       IF procs[p].rec \in Records
       THEN Finished("add", Resp(200, "ok", stock[procs[p].rec], procs[p].cart))
       ELSE Finished("add", Resp(500, "internal", 0, 0))]
  /\ UNCHANGED <<db, seqs>>

\* --------------------------------------------------------- removeFromCart
\* POST /cart-details/remove/:email: the same checks as the add
RemoveValidate(email, recordId, amount, callerOk) ==
  LET parsedAmount == Number(amount)
  IN IF recordId = 0 \/ amount = undefined
     THEN Finished("remove", Resp(400, "missing", 0, 0))
     ELSE IF isNaN(parsedAmount) \/ parsedAmount.num <= 0
          THEN Finished("remove", Resp(400, "validation", 0, 0))
     ELSE IF ~callerOk THEN Finished("remove", Resp(403, "forbidden", 0, 0))
     ELSE [Idle EXCEPT !.op = "remove", !.pc = "r_cart", !.email = email,
                       !.rec = recordId, !.amt = parsedAmount.num,
                       !.per = parsedAmount.den]

RemoveRequests(emails, ids, amounts, oks) ==
  {RemoveValidate(email, recordId, amount, callerOk) :
     email \in emails, recordId \in ids, amount \in amounts, callerOk \in oks}

\* a removal that finds no active cart takes an IdCart
RemoveBegin(p, requests) ==
  /\ procs[p].pc \in {"idle", "done"}
  /\ InRange
  /\ seqs.carts < MaxCarts
  /\ \E r \in requests : procs' = [procs EXCEPT ![p] = r]
  /\ UNCHANGED <<db, seqs>>

\* SELECT * FROM "Carts" WHERE ... "Enabled" = true FOR UPDATE: with a cart,
\* the transaction holds it and the cart line is next; with none,
\* cartService.createCart is
RemoveLockCart(p) ==
  /\ procs[p].pc = "r_cart"
  /\ LET found == ActiveCartIds(procs[p].email)
     IN IF found = {}
        THEN procs' = [procs EXCEPT ![p] = [@ EXCEPT !.pc = "r_created"]]
        ELSE /\ \A c \in found : ~LockedByOther(p, RowCart(c))
             /\ \E c \in found :
                  procs' = [procs EXCEPT ![p] =
                    [@ EXCEPT !.pc = "r_line", !.cart = c,
                              !.locks = @ \o SeqOfSet({RowCart(x) : x \in found})]]
  /\ UNCHANGED <<db, seqs>>

\* cartService.createCart inside the transaction, first statement of
\* Cart.findOrCreate: SELECT the active cart of the email, without a lock.  A
\* cart registered or enabled since the handler's own SELECT is the cart the
\* removal goes on with, unlocked; with none, the INSERT is next.
RemoveFindCart(p) ==
  /\ procs[p].pc = "r_created"
  /\ LET found == ActiveCartIds(procs[p].email)
     IN IF found = {}
        THEN procs' = [procs EXCEPT ![p] = [@ EXCEPT !.pc = "r_insert"]]
        ELSE \E c \in found :
               procs' = [procs EXCEPT ![p] =
                 [@ EXCEPT !.pc = "r_line", !.cart = c]]
  /\ UNCHANGED <<db, seqs>>

\* the "Carts" table when the cart a removal inserted is committed
RemoveKeepsCart(email, id) == createCart(email, id)

\* the "Carts" table once a removal that inserted a cart has answered: the
\* ROLLBACK before the answer undoes the INSERT
RemoveDropsCart(email, id) == carts

\* second statement of Cart.findOrCreate: INSERT INTO "Carts", which takes the
\* next IdCart whatever has been committed since the SELECT, and then checks
\* the foreign key of "UserEmail": the check waits while deleteUser holds the
\* user's row, and it refuses an email without a user, on which createCart
\* throws: ROLLBACK and 500 with the cart message.  For a user the cart is
\* inserted; no other session sees it and it has no line, so the SELECT of
\* the cart line finds none: ROLLBACK and 404.
RemoveInNewCart(p) ==
  /\ procs[p].pc \in {"r_insert", "r_fk"}
  /\ LET email == procs[p].email
         id == IF procs[p].pc = "r_insert" THEN seqs.carts + 1
               ELSE procs[p].cart
     IN /\ seqs' = IF procs[p].pc = "r_insert" THEN [seqs EXCEPT !.carts = id]
                ELSE seqs
        /\ IF KeyLocked(RowUser(email))
           THEN /\ procs[p].pc = "r_insert"
                /\ procs' = [procs EXCEPT ![p] =
                     [@ EXCEPT !.pc = "r_fk", !.cart = id]]
                /\ UNCHANGED carts
           ELSE /\ carts' = RemoveDropsCart(email, id)
                /\ procs' = [procs EXCEPT ![p] =
                     IF users[email] = "none"
                     THEN Finished("remove", Resp(500, "cart_error", 0, 0))
                     ELSE Finished("remove", Resp(404, "not_found", 0, 0))]
  /\ UNCHANGED <<users, stock, price, cartDetails, orders, orderDetails>>

\* an over-removal clamped to what the line holds
RemoveClamp(pr, l) ==
  [pr EXCEPT !.pc = "r_write", !.lineAmt = l.amount,
             !.amt = IF l.amount * pr.per < pr.amt THEN l.amount ELSE pr.amt,
             !.per = IF l.amount * pr.per < pr.amt THEN 1 ELSE pr.per,
             !.price = l.price,
             !.locks = Append(@, RowDetail(l.cart, l.rec))]

\* the cart line l is locked; if (cartDetail.Amount < parsedAmount): ROLLBACK
\* and 400 with the amount in the cart; otherwise the transaction goes on
RemoveCheck(pr, l) ==
  IF l.amount * pr.per < pr.amt
  THEN Finished("remove", Resp(400, "invalid_removal", l.amount, 0))
  ELSE [pr EXCEPT !.pc = "r_write", !.lineAmt = l.amount, !.price = l.price,
                  !.locks = Append(@, RowDetail(l.cart, l.rec))]

\* SELECT * FROM "CartDetails" WHERE "CartId" = :cartId AND "RecordId" =
\* :recordId FOR UPDATE: no row is ROLLBACK and 404
RemoveLockLine(p) ==
  /\ procs[p].pc = "r_line"
  /\ LET c == procs[p].cart
         id == procs[p].rec
     IN IF LinesOf(c, id) = {}
        THEN procs' = [procs EXCEPT ![p] =
                         Finished("remove", Resp(404, "not_found", 0, 0))]
        ELSE /\ ~LockedByOther(p, RowDetail(c, id))
             /\ \E l \in LinesOf(c, id) :
                  procs' = [procs EXCEPT ![p] = RemoveCheck(procs[p], l)]
  /\ UNCHANGED <<db, seqs>>

\* a removal that always deletes the cart line
RemoveLineDelete(details, l, amount) == BagRemove(details, l)

\* the cart lines after a removal: newAmount = cartDetail.Amount -
\* parsedAmount; the row deleted when newAmount === 0, its "Amount" set to
\* newAmount otherwise
RemoveLine(details, l, amount) ==
  IF l.amount * amount.den - amount.num = 0 THEN BagRemove(details, l)
  ELSE BagAdd(BagRemove(details, l),
              [l EXCEPT !.amount = Minus(@, amount)])

\* DELETE or UPDATE the cart line, then UPDATE "Records" SET "Stock" =
\* "Stock" + :amount, which takes the record's row lock, then UPDATE "Carts"
\* SET "TotalPrice" = "TotalPrice" - :priceToDeduct, then COMMIT.  A removal
\* that holds its cart goes through once it has the record; one that got its
\* cart from createCart holds the line and the record and still has to get
\* the cart's row lock for the last UPDATE.
RemoveWriteCommit(p) ==
  /\ procs[p].pc \in {"r_write", "r_total"}
  /\ LET c == procs[p].cart
         id == procs[p].rec
         l == [cart |-> c, rec |-> id, amount |-> procs[p].lineAmt,
               price |-> procs[p].price]
     IN IF procs[p].pc = "r_write" /\ RowCart(c) \notin Held(p)
        THEN /\ ~LockedByOther(p, RowRecord(id))
             /\ procs' = [procs EXCEPT ![p] =
                  [@ EXCEPT !.pc = "r_total",
                            !.locks = Append(@, RowRecord(id))]]
             /\ UNCHANGED <<stock, carts, cartDetails>>
        ELSE /\ ~LockedByOther(p, RowRecord(id))
             /\ ~LockedByOther(p, RowCart(c))
             /\ cartDetails' = RemoveLine(cartDetails, l, ParsedAmount(p))
             /\ stock' = [stock EXCEPT ![id] = Plus(@, ParsedAmount(p))]
             /\ carts' = [carts EXCEPT ![c].total =
                  Minus(@, [num |-> l.price * procs[p].amt,
                            den |-> procs[p].per])]
             /\ procs' = [procs EXCEPT ![p] =
                  [@ EXCEPT !.pc = "r_reply",
                            !.lineAmt = l.amount * procs[p].per - procs[p].amt,
                            !.locks = <<>>]]
  /\ UNCHANGED <<users, price, orders, orderDetails, seqs>>

\* after the COMMIT: SELECT "Stock" without a transaction, then the answer
\* with remainingInCart = newAmount; with no row left, updatedRecord.Stock
\* throws into the outer catch (500)
RemoveReply(p) ==
  /\ procs[p].pc = "r_reply"
  /\ procs' = [procs EXCEPT ![p] =
       IF procs[p].rec \in Records
       THEN Finished("remove",
              [Resp(200, "ok", stock[procs[p].rec], procs[p].lineAmt)
                 EXCEPT !.per = procs[p].per])
       ELSE Finished("remove", Resp(500, "internal", 0, 0))]
  /\ UNCHANGED <<db, seqs>>

\* ------------------------------------------------------------- deadlocks
\* the rows the next statement of p has to lock, or to find unlocked
Needs(p) ==
  LET pr == procs[p]
  IN CASE pr.pc \in {"a_record", "dr_delete"} ->
            IF pr.rec \in Records THEN {RowRecord(pr.rec)} ELSE {}
       [] pr.pc \in {"a_cart", "r_cart"} ->
            {RowCart(c) : c \in ActiveCartIds(pr.email)}
       [] pr.pc \in {"a_write", "r_line"} -> {RowDetail(pr.cart, pr.rec)}
       [] pr.pc = "r_write" -> {RowRecord(pr.rec)}
       [] pr.pc = "r_total" -> {RowCart(pr.cart)}
       [] pr.pc = "r_fk" -> {RowUser(pr.email)}
       [] pr.pc = "dr_check" ->
            {RowDetail(l.cart, l.rec) :
               l \in {x \in BagToSet(cartDetails) : x.rec = pr.rec}}
       [] pr.pc = "du_carts" -> {RowCart(c) : c \in CartIdsOf(pr.email)}
       [] pr.pc = "du_check" ->
            {RowDetail(l.cart, l.rec) :
               l \in {x \in BagToSet(cartDetails) : RowCart(x.cart) \in Held(p)}}
       [] OTHER -> {}

\* p waits for a row lock that q holds
WaitsFor(p, q) == p # q /\ Needs(p) \cap Held(q) # {}

RECURSIVE WaitChain(_, _, _)
\* q is reached from p along at most n waits-for edges
WaitChain(p, q, n) ==
  /\ n > 0
  /\ \/ WaitsFor(p, q)
     \/ \E r \in Slots : WaitsFor(p, r) /\ WaitChain(r, q, n - 1)

Deadlocked(p) == WaitChain(p, p, NumProcs + 2)

\* PostgreSQL's deadlock detector ends one transaction of the cycle with an
\* error (40P01).  An add waiting in its SELECT of the cart is inside the
\* inner try, whose catch rolls back and answers 500 with the cart message;
\* everywhere else the outer catch rolls back and answers 500, and so does
\* the catch of deleteRecord, whose DELETE is undone.
DeadlockAbort(p) ==
  /\ Deadlocked(p)
  /\ procs' = [procs EXCEPT ![p] =
       IF procs[p].pc = "a_cart"
       THEN Finished("add", Resp(500, "cart_error", 0, 0))
       ELSE Finished(procs[p].op, Resp(500, "internal", 0, 0))]
  /\ UNCHANGED <<db, seqs>>
\* ---------------------------------------------------- createOrderFromCart
\* POST /orders/create/:email.  The handler opens no transaction: every
\* statement commits on its own.
OrderBegin(p, emails) ==
  /\ procs[p].pc \in {"idle", "done"}
  /\ seqs.orders < MaxOrders
  /\ InRange
  /\ \E email \in emails :
       procs' = [procs EXCEPT ![p] =
         [Idle EXCEPT !.op = "order", !.pc = "o_cart", !.email = email]]
  /\ UNCHANGED <<db, seqs>>

\* cartService.getActiveCartByEmail: Cart.findOne, no lock
OrderReadCart(p) ==
  /\ procs[p].pc = "o_cart"
  /\ LET found == ActiveCartIds(procs[p].email)
     IN IF found = {}
        THEN procs' = [procs EXCEPT ![p] =
                         Finished("order", Resp(400, "empty", 0, 0))]
        ELSE \E c \in found :
               procs' = [procs EXCEPT ![p] =
                 IF carts[c].total <= 0
                 THEN Finished("order", Resp(400, "empty", 0, 0))
                 ELSE [@ EXCEPT !.pc = "o_details", !.cart = c,
                                !.total = carts[c].total]]
  /\ UNCHANGED <<db, seqs>>

\* cartDetailService.getCartDetailsByCartId: plain SELECT, no lock
OrderReadDetails(p) ==
  /\ procs[p].pc = "o_details"
  /\ LET read == BagOfSet(LinesOfCart(procs[p].cart), cartDetails)
     IN procs' = [procs EXCEPT ![p] =
          IF read = EmptyBag
          THEN Finished("order", Resp(400, "empty", 0, 0))
          ELSE [@ EXCEPT !.pc = "o_order", !.details = read, !.todo = read]]
  /\ UNCHANGED <<db, seqs>>

\* OrderDetail.init: validate Amount min 1, Price min 0.01, which is one
\* hundredth; Model.create rejects a row that fails them before any INSERT
\* is sent
OrderDetailValid(detail) == detail.amount >= 1 /\ detail.price >= 1

\* the catch of the handler: 500 'Failed to create order' at the first
\* promise that rejects.  The inserts of the other lines are under way and
\* land afterwards, each in a transaction of its own: todo holds them.
OrderFailed(pr, todo) ==
  IF todo = EmptyBag THEN Finished("order", Resp(500, "internal", 0, 0))
  ELSE [pr EXCEPT !.pc = "o_late", !.todo = todo,
                  !.res = Resp(500, "internal", 0, 0)]

\* Promise.all over the cart lines read, once the order is there: every
\* OrderDetail.create validates its row before it sends anything, so a row
\* that fails is rejected, and the handler is in its catch, before the INSERT
\* of any other line has come back
OrderAfterCreate(pr) ==
  LET valid == {d \in BagToSet(pr.details) : OrderDetailValid(d)}
  IN IF valid = BagToSet(pr.details) THEN [pr EXCEPT !.pc = "o_lines"]
     ELSE OrderFailed(pr, BagOfSet(valid, pr.details))

\* orderService.createOrder: Order.create with Total = cart.TotalPrice; the
\* value is the "Orders" table afterwards, with the order under IdOrder id
createOrder(email, total, c, id) ==
  orders @@ (id :> [email |-> email, total |-> total, cart |-> c])

\* the INSERT takes the next IdOrder and then checks the foreign keys of
\* "UserEmail" and "CartId": the checks wait while deleteUser holds the user
\* or the cart, or an add or a removal the cart, and they refuse the INSERT
\* once the user or the cart is deleted (500)
OrderCreate(p) ==
  /\ procs[p].pc \in {"o_order", "o_fk"}
  /\ LET pr == procs[p]
         id == IF pr.pc = "o_order" THEN seqs.orders + 1 ELSE pr.orderId
     IN /\ seqs' = IF pr.pc = "o_order" THEN [seqs EXCEPT !.orders = id]
                ELSE seqs
        /\ IF KeyLocked(RowUser(pr.email)) \/ KeyLocked(RowCart(pr.cart))
           THEN /\ pr.pc = "o_order"
                /\ procs' = [procs EXCEPT ![p] =
                     [@ EXCEPT !.pc = "o_fk", !.orderId = id]]
                /\ UNCHANGED orders
           ELSE IF users[pr.email] = "none" \/ pr.cart \notin DOMAIN carts
                THEN /\ procs' = [procs EXCEPT ![p] =
                          Finished("order", Resp(500, "internal", 0, 0))]
                     /\ UNCHANGED orders
                ELSE /\ orders' = createOrder(pr.email, pr.total, pr.cart, id)
                     /\ procs' = [procs EXCEPT ![p] =
                          OrderAfterCreate([@ EXCEPT !.orderId = id])]
  /\ UNCHANGED <<users, stock, price, carts, cartDetails, orderDetails>>

\* an order line priced from the catalog instead of the cart line
createOrderDetailLive(orderId, detail) ==
  BagAdd(orderDetails, [order |-> orderId, rec |-> detail.rec,
                        amount |-> detail.amount, price |-> price[detail.rec]])

\* orderService.createOrderDetail: OrderDetail.create for one cart line
createOrderDetail(orderId, detail) ==
  BagAdd(orderDetails, [order |-> orderId, rec |-> detail.rec,
                        amount |-> detail.amount, price |-> detail.price])

\* the handler once the INSERT of one line has come back: after its answer
\* nothing but the end of the inserts is left; before it, a refused INSERT is
\* the catch, and the last INSERT leads past the Promise.all
OrderAfterInsert(pr, inserted) ==
  IF pr.pc = "o_late"
  THEN IF pr.todo = EmptyBag THEN Finished("order", pr.res) ELSE pr
  ELSE IF ~inserted THEN OrderFailed(pr, pr.todo)
  ELSE IF pr.todo = EmptyBag THEN [pr EXCEPT !.pc = "o_clear"]
  ELSE pr

\* the INSERT of one line, in any order among the lines; the foreign keys of
\* "OrderId" and "RecordId" refuse it once the order or the record is
\* deleted, and their checks wait while deleteUser holds the order or an add
\* holds the record
OrderInsertDetail(p) ==
  /\ procs[p].pc \in {"o_lines", "o_late"}
  /\ \E d \in BagToSet(procs[p].todo) :
       LET inserted == procs[p].orderId \in DOMAIN orders /\ d.rec \in Records
       IN /\ ~KeyLocked(RowOrder(procs[p].orderId))
          /\ ~KeyLocked(RowRecord(d.rec))
          /\ orderDetails' = IF inserted
                             THEN createOrderDetail(procs[p].orderId, d)
                             ELSE orderDetails
          /\ procs' = [procs EXCEPT ![p] =
               OrderAfterInsert([@ EXCEPT !.todo = BagRemove(@, d)], inserted)]
  /\ UNCHANGED <<users, stock, price, carts, cartDetails, orders, seqs>>

\* the answer once both halves of the second Promise.all have completed
OrderAfterClear(pr) ==
  IF pr.didDelete /\ pr.didTotal
  THEN Finished("order", Resp(201, "ok", pr.orderId, pr.cart))
  ELSE pr

\* cartDetailService.removeAllDetailsFromCart:
\* DELETE FROM "CartDetails" WHERE "CartId" = :cartId
removeAllDetailsFromCart(c) ==
  [l \in BagToSet(cartDetails) \ LinesOfCart(c) |-> cartDetails[l]]

\* a conversion that hands the deleted lines' amounts back to the stock
OrderDeleteDetailsRestock(p) ==
  /\ procs[p].pc = "o_clear"
  /\ ~procs[p].didDelete
  /\ cartDetails' = removeAllDetailsFromCart(procs[p].cart)
  /\ stock' = [i \in Records |->
       stock[i] + SumAmount({l \in LinesOfCart(procs[p].cart) : l.rec = i},
                            cartDetails)]
  /\ procs' = [procs EXCEPT ![p] =
       OrderAfterClear([@ EXCEPT !.didDelete = TRUE])]
  /\ UNCHANGED <<users, price, carts, orders, orderDetails, seqs>>

OrderDeleteDetails(p) ==
  /\ procs[p].pc = "o_clear"
  /\ ~procs[p].didDelete
  /\ \A l \in LinesOfCart(procs[p].cart) :
       ~LockedByOther(p, RowDetail(l.cart, l.rec))
  /\ cartDetails' = removeAllDetailsFromCart(procs[p].cart)
  /\ procs' = [procs EXCEPT ![p] =
       OrderAfterClear([@ EXCEPT !.didDelete = TRUE])]
  /\ UNCHANGED <<users, stock, price, carts, orders, orderDetails, seqs>>

\* cartService.updateCartTotalPrice, first statement: Cart.findByPk; with
\* the cart deleted it finds nothing and the call throws (500)
OrderFindCart(p) ==
  /\ procs[p].pc = "o_clear"
  /\ ~procs[p].didFind
  /\ procs' = [procs EXCEPT ![p] =
       IF procs[p].cart \notin DOMAIN carts
       THEN Finished("order", Resp(500, "internal", 0, 0))
       ELSE [@ EXCEPT !.didFind = TRUE]]
  /\ UNCHANGED <<db, seqs>>

\* cart.increment: UPDATE "Carts" SET "TotalPrice" = "TotalPrice" + :by
\* WHERE "IdCart" = :id; the value is the "Carts" table afterwards.  For a
\* cart deleted since findByPk the UPDATE changes no row, which is no error.
updateCartTotalPrice(c, priceToAdd) ==
  IF c \in DOMAIN carts THEN [carts EXCEPT ![c].total = @ + priceToAdd]
  ELSE carts

\* second statement: the UPDATE waits for the transaction that holds the cart
OrderResetTotal(p) ==
  /\ procs[p].pc = "o_clear"
  /\ procs[p].didFind
  /\ ~procs[p].didTotal
  /\ ~LockedByOther(p, RowCart(procs[p].cart))
  /\ carts' = updateCartTotalPrice(procs[p].cart, 0 - procs[p].total)
  /\ procs' = [procs EXCEPT ![p] =
       OrderAfterClear([@ EXCEPT !.didTotal = TRUE])]
  /\ UNCHANGED <<users, stock, price, cartDetails, orders, orderDetails, seqs>>

\* ------------------------------------------------------------ disableCart
\* POST /carts/disable/:email -> cartService.disableCart
DisableBegin(p, emails) ==
  /\ procs[p].pc \in {"idle", "done"}
  /\ InRange
  /\ \E email \in emails :
       procs' = [procs EXCEPT ![p] =
         [Idle EXCEPT !.op = "disable", !.pc = "d_cart", !.email = email]]
  /\ UNCHANGED <<db, seqs>>

\* getActiveCartByEmail(email): Cart.findOne, no transaction, no lock
DisableReadCart(p) ==
  /\ procs[p].pc = "d_cart"
  /\ LET found == ActiveCartIds(procs[p].email)
     IN IF found = {}
        THEN procs' = [procs EXCEPT ![p] =
                         Finished("disable", Resp(404, "not_found", 0, 0))]
        ELSE \E c \in found :
               procs' = [procs EXCEPT ![p] =
                 [@ EXCEPT !.pc = "d_details", !.cart = c]]
  /\ UNCHANGED <<db, seqs>>

\* sequelize.transaction() t, then getCartDetailsByCartId(cart.IdCart, t):
\* the service takes one parameter, so the SELECT runs outside t, unlocked
DisableReadDetails(p) ==
  /\ procs[p].pc = "d_details"
  /\ \E q \in SeqOfBag(BagOfSet(LinesOfCart(procs[p].cart), cartDetails)) :
       procs' = [procs EXCEPT ![p] =
         [@ EXCEPT !.queue = q,
                   !.pc = IF q = <<>> THEN "d_save" ELSE "d_stock"]]
  /\ UNCHANGED <<db, seqs>>

\* the loop over the lines: recordService.updateStock(detail.RecordId,
\* detail.Amount, t) for the first one.  updateStock takes two parameters and
\* opens its own transaction; it waits for the record's row and throws, so
\* the loop ends there: t.rollback(), and the controller answers 404
DisableReturnStock(p) ==
  /\ procs[p].pc = "d_stock"
  /\ LET detail == Head(procs[p].queue)
     IN /\ ~LockedByOther(p, RowRecord(detail.rec))
        /\ stock' = updateStock(detail.rec, detail.amount)
        /\ procs' = [procs EXCEPT ![p] =
             Finished("disable", Resp(404, "stock_error", 0, 0))]
  /\ UNCHANGED <<users, price, carts, cartDetails, orders, orderDetails, seqs>>

\* cart.Enabled = false; cart.save({ transaction: t }); t.commit().  The
\* UPDATE of a cart that is deleted by now changes no row.
DisableSave(p) ==
  /\ procs[p].pc = "d_save"
  /\ IF procs[p].cart \in DOMAIN carts
     THEN /\ ~LockedByOther(p, RowCart(procs[p].cart))
          /\ carts' = [carts EXCEPT ![procs[p].cart].enabled = FALSE]
     ELSE UNCHANGED carts
  /\ procs' = [procs EXCEPT ![p] =
       Finished("disable", Resp(200, "ok", procs[p].cart, 0))]
  /\ UNCHANGED <<users, stock, price, cartDetails, orders, orderDetails, seqs>>

\* ------------------------------------------------------------- enableCart
\* POST /carts/enable/:email -> cartService.enableCart: one
\* UPDATE "Carts" SET "Enabled" = true WHERE "UserEmail" = :email AND
\* "Enabled" = false; no row updated is answered 404
\* an enable that hands the user an emptied cart
enableCartReset(email) ==
  [c \in DOMAIN carts |->
     IF carts[c].email = email /\ ~carts[c].enabled
     THEN [carts[c] EXCEPT !.enabled = TRUE, !.total = 0] ELSE carts[c]]

enableCart(email) ==
  [c \in DOMAIN carts |->
     IF carts[c].email = email /\ ~carts[c].enabled
     THEN [carts[c] EXCEPT !.enabled = TRUE] ELSE carts[c]]

EnableCart(emails) ==
  \E email \in emails :
    /\ \A c \in DOMAIN carts :
         (carts[c].email = email /\ ~carts[c].enabled) => ~LockedByAny(RowCart(c))
    /\ carts' = enableCart(email)
    /\ carts' # carts
    /\ UNCHANGED <<users, stock, price, cartDetails, orders, orderDetails,
                   seqs, procs>>

\* ------------------------------------------------------------------ system
\* the steps of a handler that is already in flight
AddRun(p) ==
  \/ AddLockRecord(p)
  \/ AddLockCart(p)
  \/ AddWriteCommit(p)
  \/ AddReply(p)

RemoveRun(p) ==
  \/ RemoveLockCart(p)
  \/ RemoveFindCart(p)
  \/ RemoveInNewCart(p)
  \/ RemoveLockLine(p)
  \/ RemoveWriteCommit(p)
  \/ RemoveReply(p)

OrderRun(p) ==
  \/ OrderReadCart(p)
  \/ OrderReadDetails(p)
  \/ OrderCreate(p)
  \/ OrderInsertDetail(p)
  \/ OrderDeleteDetails(p)
  \/ OrderFindCart(p)
  \/ OrderResetTotal(p)

DisableRun(p) ==
  \/ DisableReadCart(p)
  \/ DisableReadDetails(p)
  \/ DisableReturnStock(p)
  \/ DisableSave(p)

\* PUT /records/:id from its start to its answer
UpdateRecord(ids, bodies) ==
  \/ UpdateRecordRead(ids, bodies)
  \/ UpdateRecordWrite

\* ---------------------------------------------------------- specifications
\* every specification starts from the empty database; the administrator
\* fills the catalog with records of InitStock units at price 1 unless the
\* specification says otherwise (the "Price" column holds it in hundredths)

\* CartSpec: one registered user and one email without a user; every handler
\* slot sends add and remove requests for both, with and without the fields
\* and the rights they need
CartNext ==
  \/ CreateRecord({1}, {InitStock})
  \/ Register({"u1"}, {"User"})
  \/ \E p \in Procs :
       AddBegin(p,
            AddRequests(Emails, RequestIds, Numbers(0..MaxAmt), BOOLEAN))
  \/ \E p \in Procs : AddRun(p)
  \/ \E p \in Procs :
       RemoveBegin(p,
            RemoveRequests(Emails, RequestIds, Numbers(0..MaxAmt), BOOLEAN))
  \/ \E p \in Procs : RemoveRun(p)
  \/ \E p \in Procs : DeadlockAbort(p)

CartSpec == Init /\ [][CartNext]_vars

\* InputSpec: the handler slots send add and remove requests for record 1
\* carrying every kind of amount
InputAdds == AddRequests({"u1"}, {0, 1}, Amounts, BOOLEAN)

InputRemoves == RemoveRequests({"u1"}, {0, 1}, Amounts, BOOLEAN)

InputNext ==
  \/ CreateRecord({1}, {InitStock})
  \/ Register({"u1"}, {"User"})
  \/ \E p \in Procs : AddBegin(p, InputAdds)
  \/ \E p \in Procs : AddRun(p)
  \/ \E p \in Procs : RemoveBegin(p, InputRemoves)
  \/ \E p \in Procs : RemoveRun(p)
  \/ \E p \in Procs : DeadlockAbort(p)

InputSpec == Init /\ [][InputNext]_vars

\* RaceSpec: the records hold RaceStock units at any catalog price; once the
\* users are registered and the catalog is full, every handler slot serves
\* exactly one add of one unit of record 1
RaceStock == 1     \* "Stock" of the records of the race, below NumProcs

RaceReady ==
  /\ \A e \in Emails : users[e] # "none"
  /\ seqs.records = NumItems

RaceNext ==
  \/ CreateRecord(1..MaxPrice, {RaceStock})
  \/ Register(Emails, {"User"})
  \/ \E p \in Procs :
       /\ RaceReady
       /\ procs[p].pc = "idle"
       /\ AddBegin(p, AddRequests(Emails, {1}, Numbers({1}), {TRUE}))
  \/ \E p \in Procs : AddRun(p)

RaceSpec == Init /\ [][RaceNext]_vars

\* PriceSpec: one user adds and removes single units of record 1 through one
\* handler slot while PUT /records/1 moves its price among the positive ones
\* at any moment, also in the middle of the slot's request
PriceNext ==
  \/ CreateRecord({1}, {InitStock})
  \/ Register({"u1"}, {"User"})
  \/ UpdateRecord({1}, Bodies(1..MaxPrice, {}))
  \/ AddBegin(1, AddRequests({"u1"}, {1}, Numbers({1}), {TRUE}))
  \/ AddRun(1)
  \/ RemoveBegin(1, RemoveRequests({"u1"}, {1}, Numbers({1}), {TRUE}))
  \/ RemoveRun(1)

PriceSpec == Init /\ [][PriceNext]_vars

\* no request is under way in any slot
Idling == \A s \in Slots : procs[s].pc \in {"idle", "done"}

\* SeqSpec: one request at a time, each from its start to its answer with
\* nothing in between; registration, adds, removals, conversions, and
\* PUT /records/:id with the positive prices
SeqNext ==
  \/ Idling /\ CreateRecord({1}, {InitStock})
  \/ Idling /\ createUser("u1", "User")
  \/ createUserCommit
  \/ Idling /\ UpdateRecordRead(Items, Bodies(1..MaxPrice, {}))
  \/ UpdateRecordWrite
  \/ Idling /\ AddBegin(1,
       AddRequests({"u1"}, Items, Numbers(1..MaxAmt), {TRUE}))
  \/ AddRun(1)
  \/ Idling /\ RemoveBegin(1,
       RemoveRequests({"u1"}, Items, Numbers(1..MaxAmt), {TRUE}))
  \/ RemoveRun(1)
  \/ Idling /\ OrderBegin(1, {"u1"})
  \/ OrderRun(1)

SeqSpec == Init /\ [][SeqNext]_vars

\* FreeSpec: one request at a time; single units are added and carts
\* converted, and PUT /records/:id moves the prices over all of Prices, 0
\* included
FreeNext ==
  \/ Idling /\ CreateRecord({1}, {InitStock})
  \/ Idling /\ createUser("u1", "User")
  \/ createUserCommit
  \/ Idling /\ UpdateRecordRead(Items, Bodies(Prices, {}))
  \/ UpdateRecordWrite
  \/ Idling /\ AddBegin(1, AddRequests({"u1"}, Items, Numbers({1}), {TRUE}))
  \/ AddRun(1)
  \/ Idling /\ OrderBegin(1, {"u1"})
  \/ OrderRun(1)

FreeSpec == Init /\ [][FreeNext]_vars

\* TwinSpec: one user adds through slot 1 and asks for the conversion of the
\* cart through both slots, so that two conversions run at once
TwinNext ==
  \/ CreateRecord({1}, {InitStock})
  \/ Register({"u1"}, {"User"})
  \/ AddBegin(1, AddRequests({"u1"}, Items, Numbers(1..MaxAmt), {TRUE}))
  \/ AddRun(1)
  \/ \E p \in Procs : OrderBegin(p, {"u1"})
  \/ \E p \in Procs : OrderRun(p)

TwinSpec == Init /\ [][TwinNext]_vars

\* CycleSpec: one handler slot serves one user's adds, removals, conversions,
\* disables and enables one after the other; the adds carry whole amounts
\* and one half
CycleAdds ==
  AddRequests({"u1"}, Items, Numbers(1..MaxAmt) \cup {JsonDecimal(1, 2)},
              {TRUE})

CycleNext ==
  \/ CreateRecord({1}, {InitStock})
  \/ Register({"u1"}, {"User"})
  \/ AddBegin(1, CycleAdds)
  \/ AddRun(1)
  \/ RemoveBegin(1, RemoveRequests({"u1"}, Items, Numbers(1..MaxAmt), {TRUE}))
  \/ RemoveRun(1)
  \/ OrderBegin(1, {"u1"})
  \/ OrderRun(1)
  \/ DisableBegin(1, {"u1"})
  \/ DisableRun(1)
  \/ EnableCart({"u1"})

CycleSpec == Init /\ [][CycleNext]_vars

\* LifeSpec: registration, add, remove, disable and enable for both emails
\* on record 1; slot 1 also serves the removals, slot 2 the disables
LifeNext ==
  \/ CreateRecord({1}, {InitStock})
  \/ Register(Emails, Roles)
  \/ \E p \in Procs : AddBegin(p,
       AddRequests(Emails, {1}, Numbers({1}), {TRUE}))
  \/ \E p \in Procs : AddRun(p)
  \/ RemoveBegin(1, RemoveRequests(Emails, {1}, Numbers({1}), {TRUE}))
  \/ \E p \in Procs : RemoveRun(p)
  \/ \E p \in Procs : DeadlockAbort(p)
  \/ DisableBegin(NumProcs, Emails)
  \/ \E p \in Procs : DisableRun(p)
  \/ EnableCart(Emails)

LifeSpec == Init /\ [][LifeNext]_vars

\* ShopSpec: all six operations on record 1 and one user's cart; every slot
\* serves adds, slot 1 also removals and conversions, slot 2 the disables
ShopNext ==
  \/ CreateRecord({1}, {InitStock})
  \/ Register({"u1"}, {"User"})
  \/ \E p \in Procs : AddBegin(p,
       AddRequests({"u1"}, {1}, Numbers(1..MaxAmt), {TRUE}))
  \/ \E p \in Procs : AddRun(p)
  \/ RemoveBegin(1, RemoveRequests({"u1"}, {1}, Numbers(1..MaxAmt), {TRUE}))
  \/ \E p \in Procs : RemoveRun(p)
  \/ \E p \in Procs : DeadlockAbort(p)
  \/ OrderBegin(1, {"u1"})
  \/ \E p \in Procs : OrderRun(p)
  \/ DisableBegin(NumProcs, {"u1"})
  \/ \E p \in Procs : DisableRun(p)
  \/ EnableCart({"u1"})
  \/ UpdateStock({1}, (0 - MaxAmt)..MaxAmt)

ShopSpec == Init /\ [][ShopNext]_vars

\* ReturnSpec: one handler slot serves adds, removals and disables for both
\* users on every record; no cart is enabled again
ReturnNext ==
  \/ CreateRecord({1}, {InitStock})
  \/ Register(Emails, {"User"})
  \/ AddBegin(1, AddRequests(Emails, Items, Numbers(1..MaxAmt), {TRUE}))
  \/ AddRun(1)
  \/ RemoveBegin(1, RemoveRequests(Emails, Items, Numbers(1..MaxAmt), {TRUE}))
  \/ RemoveRun(1)
  \/ DisableBegin(1, Emails)
  \/ DisableRun(1)

ReturnSpec == Init /\ [][ReturnNext]_vars

\* CatalogSpec: the administrator creates records with and without the
\* fields they need, sets their stock and deletes them, while one user adds
\* and removes through handler slot 1; a removal and a DELETE of the record
\* that wait for each other end with one of the two as the deadlock's victim
CatalogNext ==
  \/ CreateRecord(Prices, 0..InitStock)
  \/ DeleteRecord(RequestIds)
  \/ UpdateRecord(Items, Bodies({}, 0..InitStock))
  \/ Register({"u1"}, {"User"})
  \/ AddBegin(1, AddRequests({"u1"}, RequestIds, Numbers(1..MaxAmt), {TRUE}))
  \/ AddRun(1)
  \/ RemoveBegin(1, RemoveRequests({"u1"}, Items, Numbers({1}), {TRUE}))
  \/ RemoveRun(1)
  \/ DeadlockAbort(1)
  \/ DeadlockAbort(Admin)

CatalogSpec == Init /\ [][CatalogNext]_vars

\* ReplySpec: one user adds single units of record 1 through slot 1 and
\* removes them through slot 2 while the administrator deletes the record
ReplyNext ==
  \/ CreateRecord({1}, {InitStock})
  \/ DeleteRecord({1})
  \/ Register({"u1"}, {"User"})
  \/ AddBegin(1, AddRequests({"u1"}, {1}, Numbers({1}), {TRUE}))
  \/ AddRun(1)
  \/ RemoveBegin(NumProcs, RemoveRequests({"u1"}, {1}, Numbers({1}), {TRUE}))
  \/ RemoveRun(NumProcs)
  \/ \E p \in Procs : DeadlockAbort(p)
  \/ DeadlockAbort(Admin)

ReplySpec == Init /\ [][ReplyNext]_vars

\* AccountSpec: users of both roles are registered and deleted while one
\* handler slot serves adds, removals and conversions on record 1
AccountNext ==
  \/ CreateRecord({1}, {InitStock})
  \/ Register(Emails, Roles)
  \/ DeleteUser(Emails)
  \/ AddBegin(1, AddRequests(Emails, {1}, Numbers({1}), {TRUE}))
  \/ AddRun(1)
  \/ RemoveBegin(1, RemoveRequests(Emails, {1}, Numbers({1}), {TRUE}))
  \/ RemoveRun(1)
  \/ OrderBegin(1, Emails)
  \/ OrderRun(1)

AccountSpec == Init /\ [][AccountNext]_vars

\* ------------------------------------------------------------------ claims
\* the rows of "CartDetails" for one record, over every cart
LinesOfRecord(id) == {l \in BagToSet(cartDetails) : l.rec = id}

\* C1: for every record, the stock plus the amounts of all cart lines of that
\* record equals the stock the record started with, in every committed state
\* that add and remove requests reach in any interleaving.
StockPlusReservedIsInitial ==
  \A i \in Records :
    stock[i] + SumAmount(LinesOfRecord(i), cartDetails) = InitStock

\* C2: the stock of every record is at least 0 in every state reached by add,
\* remove, disable, enable, conversion and updateStock requests.
StockNeverNegative == \A i \in Records : stock[i] >= 0

\* the stock is used up, an add has been refused for lack of stock, a cart
\* is disabled and a stock update has been answered
C2Witness ==
  /\ 1 \in Records
  /\ stock[1] = 0
  /\ \E p \in Procs : procs[p].op = "add" /\ procs[p].res.kind = "insufficient"
  /\ \E c \in DOMAIN carts : ~carts[c].enabled
  /\ procs[Admin].op = "updateStock"
  /\ procs[Admin].pc = "done"

\* C3: once every one of the NumProcs concurrent adds of one unit has been
\* answered, exactly RaceStock of them succeeded, the others were refused for
\* insufficient stock, and the record's stock is 0.
RaceOutcome ==
  (\A p \in Procs : procs[p].pc = "done") =>
    /\ Cardinality({p \in Procs : procs[p].res.status = 200}) = RaceStock
    /\ Cardinality({p \in Procs : procs[p].res.kind = "insufficient"})
         = NumProcs - RaceStock
    /\ stock[1] = 0

\* every add has been answered, one with success and one with a refusal
C3Witness ==
  /\ \A p \in Procs : procs[p].pc = "done"
  /\ \E p \in Procs : procs[p].res.status = 200
  /\ \E p \in Procs : procs[p].res.kind = "insufficient"

\* C4: every email has at most one cart with Enabled = true, in every state
\* reached by registration, add, remove, disable and enable requests.
OneActiveCartPerEmail ==
  \A e \in Emails : Cardinality(ActiveCartIds(e)) <= 1

\* a cart that a disable request switched off is enabled again
C4Witness ==
  \E p \in Procs :
    /\ procs[p].op = "disable"
    /\ procs[p].res.status = 200
    /\ carts[procs[p].res.value].enabled

\* C5: no transaction of an add, remove or disable request is part of a cycle
\* of transactions that each wait for a row lock the next one holds.
NoDeadlock == \A p \in Procs : ~Deadlocked(p)

\* the number of "CartDetails" rows of one cart for one record
LineCount(c, id) == BagCardinality(BagOfSet(LinesOf(c, id), cartDetails))

\* the commit of an add by p: the line of (cart, record) it leaves behind is
\* the one row there, with the old amount raised and the old price kept when
\* a row existed, and with the added amount at the catalog price otherwise
AddMerges(p) ==
  LET c == procs[p].cart
      id == procs[p].rec
      amount == procs[p].amt
  IN (procs[p].pc = "a_write" /\ procs'[p].pc = "a_reply") =>
       IF LinesOf(c, id) # {}
       THEN \A l \in LinesOf(c, id) :
              LinesOf(c, id)' = {[l EXCEPT !.amount = @ + amount]}
       ELSE LinesOf(c, id)' = {[cart |-> c, rec |-> id, amount |-> amount,
                                price |-> price[id]]}

\* C6: a cart never holds two lines for the same record, and an add of a
\* record already in the cart raises the amount of the existing line by the
\* added amount and keeps the price stored by the first add, whatever the
\* catalog price has become.
AddMergesIntoOneLine ==
  /\ [](\A c \in DOMAIN carts, id \in Records : LineCount(c, id) <= 1)
  /\ [][\A p \in Procs : AddMerges(p)]_vars

\* a second add has just committed into a line whose stored price is not the
\* catalog price the second add read
C6Witness ==
  \E p \in Procs :
    /\ procs[p].pc = "a_reply"
    /\ \E l \in LinesOf(procs[p].cart, procs[p].rec) :
         l.amount > procs[p].amt /\ l.price # procs[p].price

\* the step of a removal by p that reads, under its lock, a line holding less
\* than the request's amount: it answers 400 with the line's amount and
\* writes nothing
OverRemovalRefused(p) ==
  \A l \in LinesOf(procs[p].cart, procs[p].rec) :
    (procs[p].pc = "r_line" /\ ~Deadlocked(p) /\ procs'[p] # procs[p]
       /\ l.amount < procs[p].amt) =>
      /\ procs'[p].pc = "done"
      /\ procs'[p].res = Resp(400, "invalid_removal", l.amount, 0)
      /\ UNCHANGED db

\* C7: a removal of more than the cart line holds is answered with the
\* invalid-removal error carrying the line's current amount, and the stock,
\* the cart line and the cart total stay as they were.
OverRemovalChangesNothing == [][\A p \in Procs : OverRemovalRefused(p)]_vars

\* a removal has been refused for a line that holds one unit
C7Witness ==
  \E p \in Procs :
    /\ procs[p].op = "remove"
    /\ procs[p].res = Resp(400, "invalid_removal", 1, 0)
    /\ \E l \in BagToSet(cartDetails) : l.amount = 1

\* the rows of "OrderDetails" of one order, with their multiplicity
OrderLinesOf(o) ==
  BagOfSet({d \in BagToSet(orderDetails) : d.order = o}, orderDetails)

\* order o holds the cart's total and one line per line of cart c, with the
\* line's record, amount and price
OrderCopiesCart(o, c) ==
  /\ orders[o].total = carts[c].total
  /\ orders[o].email = carts[c].email
  /\ BagCardinality(OrderLinesOf(o))
       = BagCardinality(BagOfSet(LinesOfCart(c), cartDetails))
  /\ \A l \in LinesOfCart(c) :
       LET d == [order |-> o, rec |-> l.rec, amount |-> l.amount,
                 price |-> l.price]
       IN BagIn(d, orderDetails) /\ orderDetails[d] = cartDetails[l]

\* a conversion by p has written its order and order lines and has not yet
\* begun to empty the cart
OrderWritten(p) ==
  procs[p].pc = "o_clear" /\ ~procs[p].didDelete /\ ~procs[p].didTotal

\* a step of a conversion by p adds one row to "Orders" when it is the
\* conversion's insert of the order, and none otherwise
OneOrderPerConversion(p) ==
  (procs[p].op = "order" /\ procs'[p] # procs[p]) =>
    /\ DOMAIN orders \subseteq DOMAIN orders'
    /\ Cardinality(DOMAIN orders') =
         Cardinality(DOMAIN orders) + (IF procs[p].pc = "o_order" THEN 1 ELSE 0)

\* C8: a conversion that gets through on a cart with a positive total and
\* some lines creates exactly one order, with the cart's total, and exactly
\* one order line per cart line, with that line's record, amount and price.
OrderCopiesTotalAndLines ==
  /\ [](\A p \in Procs : OrderWritten(p) =>
          /\ carts[procs[p].cart].total > 0
          /\ LinesOfCart(procs[p].cart) # {}
          /\ OrderCopiesCart(procs[p].orderId, procs[p].cart))
  /\ [][\A p \in Procs : OneOrderPerConversion(p)]_vars

\* an order has been written from a cart of two lines, one of them at a
\* price that is no longer the catalog's
C8Witness ==
  \E p \in Procs :
    /\ OrderWritten(p)
    /\ Cardinality(LinesOfCart(procs[p].cart)) = 2
    /\ \E l \in LinesOfCart(procs[p].cart) : l.price # price[l.rec]

\* the step in which the conversion served by p answers 201
OrderSucceeds(p) ==
  /\ procs[p].op = "order"
  /\ procs[p].pc # "done"
  /\ procs'[p].pc = "done"
  /\ procs'[p].res.status = 201

\* C9: when a conversion answers 201, the cart it converted still exists, is
\* enabled, has no lines and has a total of 0.
ConvertedCartIsEmpty ==
  [][\A p \in Procs : OrderSucceeds(p) =>
       LET c == procs[p].cart
       IN /\ c \in DOMAIN carts'
          /\ carts'[c].enabled
          /\ carts'[c].total = 0
          /\ \A l \in BagToSet(cartDetails') : l.cart # c]_vars

\* a step of a conversion by p, its start included
OrderStep(p) ==
  /\ procs'[p] # procs[p]
  /\ \/ procs[p].op = "order" /\ procs[p].pc # "done"
     \/ procs'[p].op = "order" /\ procs'[p].pc = "o_cart"

\* C10: no step of a conversion changes the stock of any record, whether the
\* conversion ends with an order or with a refusal.
OrderKeepsStock == [][\A p \in Procs : OrderStep(p) => stock' = stock]_vars

\* one conversion has answered 201 while units are reserved out of the stock
C10Witness ==
  /\ \E p \in Procs : procs[p].op = "order" /\ procs[p].res.status = 201
  /\ \E i \in Records : stock[i] < InitStock
  /\ orderDetails # EmptyBag

\* the rows of "CartDetails" for one record in the carts that are enabled
ActiveLinesOfRecord(id) == {l \in LinesOfRecord(id) : carts[l.cart].enabled}

\* the step in which the disable served by p gives back the first line it
\* has read
DisableReturns(p) ==
  /\ procs[p].op = "disable"
  /\ procs[p].pc = "d_stock"
  /\ procs'[p] # procs[p]

\* C11: a disable request raises the stock of every record by the amount of
\* the cart's line for it and goes on to switch the cart off: the step that
\* gives a line back raises the stock of the line's record by the line's
\* amount and does not end the request with an error.
DisableReleasesLines ==
  [][\A p \in Procs : DisableReturns(p) =>
       LET d == Head(procs[p].queue)
       IN /\ stock'[d.rec] = stock[d.rec] + d.amount
          /\ procs'[p].res.status \notin {404, 500}]_vars

\* a step that switches a disabled cart on: only enableCart does
EnableStep == \E c \in DOMAIN carts : ~carts[c].enabled /\ carts'[c].enabled

\* C12: a step that enables a cart changes no stock, no cart line, no cart
\* total and no cart owner; it adds and removes no cart row.
EnableOnlyFlips ==
  [][EnableStep =>
       /\ stock' = stock
       /\ cartDetails' = cartDetails
       /\ DOMAIN carts' = DOMAIN carts
       /\ \A c \in DOMAIN carts :
            carts'[c].total = carts[c].total /\ carts'[c].email = carts[c].email]_vars

\* a cart that was disabled with a line and a total is enabled again
C12Witness ==
  \E p \in Procs :
    /\ procs[p].op = "disable"
    /\ procs[p].res.status = 200
    /\ carts[procs[p].res.value].enabled
    /\ carts[procs[p].res.value].total > 0
    /\ LinesOfCart(procs[p].res.value) # {}

\* a step of an add request served by p, its start included
AddStep(p) ==
  /\ procs'[p] # procs[p]
  /\ \/ procs[p].op = "add" /\ procs[p].pc # "done"
     \/ procs'[p].op = "add" /\ procs[p].pc \in {"idle", "done"}

\* C13: an add writes in one step only, its COMMIT; every step that answers
\* an error comes before that step and writes nothing, and the step after it
\* answers 200: an add answered with an error, whatever the step it failed
\* in, has changed no stock, no cart line and no total.
AddErrorChangesNothing ==
  [][\A p \in Procs : AddStep(p) =>
       \/ procs'[p].pc = "a_reply"
       \/ /\ UNCHANGED db
          /\ procs'[p].pc = "done" =>
               (procs'[p].res.status = 200 <=> procs[p].pc = "a_reply")]_vars

\* the step in which the conversion served by p answers 500
OrderFails(p) ==
  /\ procs[p].op = "order"
  /\ procs[p].res.status # 500
  /\ procs'[p].op = "order"
  /\ procs'[p].res.status = 500

\* the order of the conversion served by p: the one it has inserted, or the
\* one it is about to insert
OrderOf(p) ==
  IF procs[p].pc = "o_order" THEN seqs.orders + 1 ELSE procs[p].orderId

\* C14: a conversion that fails after it has inserted its order leaves no
\* order row and no order line of its own behind.
FailedOrderLeavesNothing ==
  [][\A p \in Procs : OrderFails(p) =>
       /\ OrderOf(p) \notin DOMAIN orders'
       /\ \A d \in BagToSet(orderDetails') : d.order # OrderOf(p)]_vars

\* the step in which the add served by p commits its writes
AddCommits(p) == procs[p].pc = "a_write" /\ procs'[p].pc = "a_reply"

\* C15: an add that succeeds raises the cart's total by its amount times the
\* price stored on the cart line it wrote, whatever the catalog price is now.
AddRaisesTotalByLinePrice ==
  [][\A p \in Procs : AddCommits(p) =>
       \E l \in BagToSet(cartDetails') :
          /\ l.cart = procs[p].cart
          /\ l.rec = procs[p].rec
          /\ carts'[l.cart].total =
               carts[l.cart].total + procs[p].amt * l.price]_vars

\* C16: the total cached on every cart is the sum of price times amount over
\* the cart's lines, in every committed state.
TotalIsSumOfLines ==
  \A c \in DOMAIN carts :
     carts[c].total = SumValue(LinesOfCart(c), cartDetails)

\* the step of the add served by p that follows the search for the active
\* cart of a registered user who has none
AddFindsNoCart(p) ==
  /\ procs[p].op = "add"
  /\ procs[p].pc = "a_cart"
  /\ procs'[p] # procs[p]
  /\ users[procs[p].email] # "none"
  /\ ActiveCartIds(procs[p].email) = {}

\* C17: an add for a user who has no active cart creates the cart and goes
\* on to its writes; it is not answered with an error about the cart.
AddCreatesMissingCart ==
  [][\A p \in Procs : AddFindsNoCart(p) =>
       /\ procs'[p].pc = "a_write"
       /\ procs'[p].res.kind # "cart_error"]_vars

\* a number, or a string that spells one
Numeric(a) ==
  \/ a.type = "number"
  \/ /\ a.type = "string"
     /\ Len(TrimEnd(TrimStart(a.str))) > 0
     /\ ~isNaN(StringToNumber(a.str))

PositiveAmount(a) == Numeric(a) /\ Number(a).num > 0

\* the amounts a request may carry that are not positive or not numeric
BadAmounts == {a \in Amounts \ {undefined} : ~PositiveAmount(a)}

\* the step in which slot p takes up an add or a removal
BeginStep(p) ==
  /\ procs[p].pc \in {"idle", "done"}
  /\ procs'[p] # procs[p]
  /\ procs'[p].op \in {"add", "remove"}

\* what the handlers make of the requests of an authorized caller that
\* carry such an amount
BadRequests ==
  AddRequests({"u1"}, {1}, BadAmounts, {TRUE})
    \cup RemoveRequests({"u1"}, {1}, BadAmounts, {TRUE})

\* C18: an add or a removal whose amount is not positive or not a number is
\* answered with the validation error in its first step, which holds no row
\* lock and changes no table.
BadAmountRejected ==
  [][\A p \in Procs : (BeginStep(p) /\ procs'[p] \in BadRequests) =>
       /\ procs'[p].pc = "done"
       /\ procs'[p].res = Resp(400, "validation", 0, 0)
       /\ procs'[p].locks = <<>>
       /\ UNCHANGED db]_vars

\* the step in which the add served by p has read its record
AddRecordStep(p) ==
  /\ procs[p].op = "add"
  /\ procs[p].pc = "a_record"
  /\ procs'[p] # procs[p]

\* C19: an add for more than the record's stock, read once the record's row
\* is locked, is answered insufficient stock with the stock available, and an
\* add for a record that does not exist is answered not found; neither
\* changes a table.
AddRefusedWithoutStock ==
  [][\A p \in Procs : AddRecordStep(p) =>
       LET id == procs[p].rec
       IN /\ id \notin Records =>
               /\ procs'[p] = Finished("add", Resp(404, "not_found", 0, 0))
               /\ UNCHANGED db
          /\ (id \in Records /\ stock[id] < procs[p].amt) =>
               /\ procs'[p] =
                    Finished("add", Resp(400, "insufficient", stock[id], 0))
               /\ UNCHANGED db]_vars

\* an add has been refused for lack of stock with one unit left, after an
\* add for a record that had been deleted, while another record is in a cart
C19Witness ==
  /\ cartDetails # EmptyBag
  /\ Cardinality(Records) < seqs.records
  /\ procs[1] = Finished("add", Resp(400, "insufficient", 1, 0))

\* the step of the removal served by p that follows the search for the
\* active cart of a registered user who has none
RemoveFindsNoCart(p) ==
  /\ procs[p].op = "remove"
  /\ procs[p].pc \in {"r_cart", "r_created"}
  /\ procs'[p] # procs[p]
  /\ users[procs[p].email] # "none"
  /\ ActiveCartIds(procs[p].email) = {}

\* the step in which such a removal answers
RemoveWithoutCartAnswers(p) ==
  /\ procs[p].op = "remove"
  /\ procs[p].pc = "r_insert"
  /\ procs'[p] # procs[p]
  /\ users[procs[p].email] # "none"

\* C20: a removal for a user who has no active cart is answered not found,
\* and none of its steps changes the carts, the stock or the cart lines: the
\* user has no more carts afterwards than before.
RemoveWithoutCartNotFound ==
  [][\A p \in Procs :
       /\ RemoveFindsNoCart(p) =>
            /\ procs'[p].pc =
                 (IF procs[p].pc = "r_cart" THEN "r_created" ELSE "r_insert")
            /\ UNCHANGED db
       /\ RemoveWithoutCartAnswers(p) =>
            /\ procs'[p] = Finished("remove", Resp(404, "not_found", 0, 0))
            /\ UNCHANGED db]_vars

\* a removal has found no active cart for its registered user, whose cart
\* is disabled, and has been answered not found
C20Witness ==
  \E p \in Procs :
     /\ procs[p] = Finished("remove", Resp(404, "not_found", 0, 0))
     /\ \E e \in Emails :
          /\ users[e] # "none"
          /\ ActiveCartIds(e) = {}
          /\ CartIdsOf(e) # {}
          /\ \A c \in CartIdsOf(e) : c < seqs.carts

\* the step in which the removal served by p commits its writes
RemoveCommits(p) ==
  procs[p].pc \in {"r_write", "r_total"} /\ procs'[p].pc = "r_reply"

\* the step in which it answers
RemoveAnswers(p) == procs[p].pc = "r_reply" /\ procs'[p].pc = "done"

\* the lines of record id in cart c among the rows of details
LinesIn(details, c, id) ==
  {l \in BagToSet(details) : l.cart = c /\ l.rec = id}

\* C21: a removal of n from a line of amount m >= n and price p that succeeds
\* leaves the line with m - n, or no line when m = n, raises the record's
\* stock by n, lowers the cart's total by p times n and reports m - n.
RemoveTakesFromLine ==
  [][\A p \in Procs :
       /\ RemoveCommits(p) =>
            LET c == procs[p].cart
                id == procs[p].rec
                n == procs[p].amt
                before == LinesIn(cartDetails, c, id)
                after == LinesIn(cartDetails', c, id)
            IN \E l \in before :
                 /\ before = {l}
                 /\ l.amount >= n
                 /\ after = IF l.amount = n THEN {}
                            ELSE {[l EXCEPT !.amount = l.amount - n]}
                 /\ stock'[id] = stock[id] + n
                 /\ carts'[c].total = carts[c].total - l.price * n
                 /\ procs'[p].lineAmt = l.amount - n
       /\ RemoveAnswers(p) =>
            /\ procs'[p].res.status = 200
            /\ procs'[p].res.value2 = procs[p].lineAmt]_vars

\* a removal has answered that one unit remains, in a line whose price is
\* not the record's price any more
C21Witness ==
  \E p \in Procs :
     /\ procs[p].op = "remove"
     /\ procs[p].pc = "done"
     /\ procs[p].res.status = 200
     /\ procs[p].res.value2 = 1
     /\ \E l \in BagToSet(cartDetails) : l.amount = 1 /\ l.price # price[l.rec]

\* C22: no cart belongs to a user whose role is Admin.
AdminsOwnNoCart ==
  \A c \in DOMAIN carts : users[carts[c].email] # "Admin"

\* C23: no request is about to lock a record's row while it holds the lock
\* of a cart or of a cart line: the record's row is always locked first.
RecordLockedFirst ==
  \A p \in Procs :
     (\E row \in Needs(p) : row.t = "Records") =>
        \A row \in Held(p) : row.t = "Records"

\* a step of a disable request served by p, its start included
DisableStep(p) ==
  /\ procs'[p] # procs[p]
  /\ \/ procs[p].op = "disable" /\ procs[p].pc # "done"
     \/ procs'[p].op = "disable" /\ procs[p].pc \in {"idle", "done"}

\* C24: a disable never makes a release of stock visible without the cleared
\* flag: no step of it changes a stock or a cart line, the one step that
\* changes a cart is the one that answers 200, and a disable that fails
\* leaves every table as it was.
DisableIsAtomic ==
  [][\A p \in Procs : DisableStep(p) =>
       /\ stock' = stock
       /\ cartDetails' = cartDetails
       /\ carts' # carts => procs'[p].res.status = 200
       /\ procs'[p].res.status \in {404, 500} => UNCHANGED db]_vars

\* a disable of a cart holding a line has failed: the units are still
\* reserved and the cart is still enabled
C24Witness ==
  \E l \in BagToSet(cartDetails) :
     /\ procs[1] = Finished("disable", Resp(404, "stock_error", 0, 0))
     /\ carts[l.cart].enabled
     /\ stock[l.rec] < InitStock

\* C25: an add or a removal never waits for a row lock held by an add or a
\* removal on another record.
DifferentItemsNeverWait ==
  \A p, q \in Procs : WaitsFor(p, q) => procs[p].rec = procs[q].rec

\* the add served by p has committed and not answered yet
AddCommitted(p) == procs[p].op = "add" /\ procs[p].pc = "a_reply"

\* C26: the stock an add reports is the stock its own decrement produced:
\* from its commit to its answer no step changes the stock of its record,
\* and the answer carries that stock.
AddReportsOwnStock ==
  [][\A p \in Procs : AddCommitted(p) =>
       /\ stock'[procs[p].rec] = stock[procs[p].rec]
       /\ procs'[p].pc = "done" =>
            procs'[p].res.value = stock[procs[p].rec]]_vars

\* C27: the total of every cart is at least 0 in every state.
TotalNeverNegative ==
  \A c \in DOMAIN carts : carts[c].total >= 0

\* the step in which the conversion served by p deletes the cart's lines
OrderDeletes(p) ==
  /\ procs[p].op = "order"
  /\ procs[p].pc = "o_clear"
  /\ procs'[p] # procs[p]
  /\ cartDetails' # cartDetails

\* C28: every cart line a conversion deletes has its record, amount and
\* price in an order line of the order the conversion created.
OrderDeletesOnlyCopied ==
  [][\A p \in Procs : OrderDeletes(p) =>
       \A l \in LinesOfCart(procs[p].cart) :
          BagIn([order |-> procs[p].orderId, rec |-> l.rec,
                 amount |-> l.amount, price |-> l.price], orderDetails)]_vars

\* the order lines of record id
OrderLinesOfRecord(id) == {d \in BagToSet(orderDetails) : d.rec = id}

\* C29: conversions that run at once never copy the same cart lines into two
\* orders: the units of a record in order lines are units taken out of its
\* stock, each counted once, and no total is lowered below 0.
LinesSoldOnce ==
  /\ \A i \in Records :
        stock[i] + SumAmount(OrderLinesOfRecord(i), orderDetails) <= InitStock
  /\ \A c \in DOMAIN carts : 0 <= carts[c].total

\* no request is being served
Quiet == \A p \in Procs : procs[p].pc \in {"idle", "done"}

\* C30: between requests, the stock of every record, the amounts of its
\* lines in enabled carts and the amounts of its order lines add up to the
\* initial stock.
UnitsInStockCartOrOrder ==
  Quiet =>
    \A i \in Records :
       stock[i] + SumAmount(ActiveLinesOfRecord(i), cartDetails)
                + SumAmount(OrderLinesOfRecord(i), orderDetails) = InitStock

====
